---------------------------- MODULE Spec2Model ----------------------------
(***************************************************************************)
(* Single-path Pathfinder (stan/services/pathfinder/single.hpp).           *)
(*                                                                         *)
(* The file holds two drivers with the same name:                          *)
(*   - pathfinder::pathfinder_lbfgs_single  (lines 796-1096), sequential:  *)
(*     every L-BFGS step is scored as soon as it is taken;                 *)
(*   - optimize::pathfinder_lbfgs_single    (lines 1609-2010), parallel:   *)
(*     the whole optimisation path is stored first and the iterates are    *)
(*     then scored by the tasks of a tbb::parallel_for.                    *)
(* The variable driver says which of the two entry points is running.      *)
(*                                                                         *)
(* Numbers.  Parameters are integers.  Gradients are integers times        *)
(* 10^gexp, where gexp is a property of the target density (a Gaussian of  *)
(* variance 1e-12 has gradients 1e12 times the displacement).  A vector is *)
(* a record [m |-> mantissas, e |-> decimal exponent]; all arithmetic on   *)
(* it is exact, so the 1e12 threshold of check_curve keeps its value.      *)
(* alpha has rational mantissas <<numerator, denominator>>.                *)
(***************************************************************************)
EXTENDS Integers, Naturals, Sequences, FiniteSets, TLC

VARIABLES
    driver,               \* "seq" | "par": the entry point that is running
    pc,                   \* position of the driver thread
    gexp,                 \* decimal exponent of the target's gradients
    history_size,         \* argument history_size
    lbfgs,                \* the optimizer: [iter_num, curr_x, curr_g]
    ret,                  \* int ret: last return code of lbfgs.step()
    best_E,               \* Eigen::Index best_E
    taylor_approx_best,   \* taylor_approx_t taylor_approx_best
    scored,               \* history: the ELBO of every iterate scored so far
    \* ---- sequential driver
    prev_params, prev_grads,
    param_buff, grad_buff,        \* boost::circular_buffer<Eigen::VectorXd>
    current_history_size,
    alpha,
    Ykt_mat, Skt_mat,             \* columns handed to pathfinder_impl
    elbo_best,
    pushed,               \* history: every pair push_back has been given
    return_code,
    calls,                \* history: the calls of interrupt() and lbfgs.step()
    \* ---- parallel driver
    param_vecs, grad_vecs, param_cols_filled,
    Ykt_diff, Skt_diff, check_curve_vec, alpha_mat,
    task,                 \* per iter: the tbb task's position and locals
    update_best_mutex,    \* std::mutex: 0 = free, else holder's iter + 1
    elbo_fit_best,
    ftask,                \* the tasks of the parallel_for over the draws
    rng_pos,              \* draws taken so far from the shared generators
    \* ---- internal::taylor_approximation applied on its own
    taylor_Ykt_mat,       \* the shape [rows, cols] of the argument Ykt_mat
    taylor_result,        \* the taylor_approx_t it returned
    \* ---- internal::est_approx_draws applied on its own
    est_args,             \* [ReturnElbo, lp_approx, lp_fun_out]
    est_result,           \* the elbo_est_t it returned
    \* ---- what leaves the drivers
    pathfinder_res,       \* latest call of pathfinder_impl: [lp_fun_out, first]
    exception,            \* the exception that left the entry point, or "none"
    num_draws,            \* argument num_draws
    final_thrown,         \* where the final sampling threw: [try, fallback]
    out_lp_ratio,         \* the lp_ratio of the returned tuple
    out_draws,            \* the draw matrix of the returned tuple
    written,              \* the matrices parameter_writer was given
    \* ---- psis::internal::quick_sort and psis::psis_weights
    arr, idx,             \* the arrays quick_sort is sorting
    qs,                   \* the threads of quick_sort
    sort_args,            \* [arr, idx] as quick_sort was given them
    lw_i,                 \* Eigen::Array<double, -1, 1> lw_i
    psis,                 \* [log_ratios_i, tail_len_i, max_n, smoothed]
    \* ---- internal::form_diag applied on its own, on doubles
    diag_args,            \* [alpha_init, Yk, Sk]
    diag_result           \* the vector it returned

sharedVars == <<driver, pc, gexp, history_size, lbfgs, ret, best_E,
                taylor_approx_best, scored>>
seqVars == <<prev_params, prev_grads, param_buff, grad_buff,
             current_history_size, alpha, Ykt_mat, Skt_mat, elbo_best,
             pushed, return_code, calls>>
parVars == <<param_vecs, grad_vecs, param_cols_filled, Ykt_diff, Skt_diff,
             check_curve_vec, alpha_mat, task, update_best_mutex,
             elbo_fit_best, ftask, rng_pos>>
psisVars == <<arr, idx, qs, sort_args, lw_i, psis>>
diagVars == <<diag_args, diag_result>>
fnVars == <<taylor_Ykt_mat, taylor_result, est_args, est_result, psisVars,
            diagVars>>
outVars == <<pathfinder_res, exception, num_draws, final_thrown,
             out_lp_ratio, out_draws, written>>
vars == <<sharedVars, seqVars, parVars, fnVars, outVars>>

--------------------------------------------------------------------------
\* Bounds of the model.
MaxIter == 3          \* conv_opts.maxIts of the sequential driver's run
ParMaxIter == 2       \* conv_opts.maxIts of the parallel driver's run
MaxHist == 2          \* history_size is drawn from 1..MaxHist
NumParams == 4        \* number of unconstrained parameters d
MaxRows == 10         \* rows of a Ykt_mat given to taylor_approximation
MaxCols == 6          \* columns of a Ykt_mat given to taylor_approximation
num_elbo_draws == 2   \* argument num_elbo_draws, K
MaxS == 7             \* log_ratios_i has at most MaxS entries
MaxLen == 4           \* quick_sort is given every array of up to MaxLen
MantissaBits == 6     \* bits of the mantissa of a double of the model
MaxDim == 2           \* form_diag is given vectors of up to MaxDim entries

\* Program constants.
ThetaMaxExp == 12     \* thetak <= 1e12
TERM_LSFAIL == -1     \* ret == -1: line search failed after a reset
ElboGrain == 512      \* grainsize of the parallel_for over the ELBO draws
FinalGrain == 256     \* grainsize of the parallel_for over the other draws
ParallelSortSize == 400   \* high - low >= 400l: the sub-sorts are forked
MinTailLen == 5       \* tail_len_i >= 5: the tail is smoothed
NegInf == -1000       \* -infinity, below every finite value of the model
Lowest == -999        \* numeric_limits<double>::lowest(), the least finite one

\* Inputs: the values the optimizer, the model and the sampler may produce.
XDomain == {[i \in 1..NumParams |-> v] : v \in {0, 1}}
GDomain == {[i \in 1..NumParams |-> IF i = 1 THEN v ELSE 0] : v \in {0, 1}}
GradExps == {0 - ThetaMaxExp, 0, ThetaMaxExp + 1}
ElboValues == {NegInf, 0, 1}
LogRatios == {0, 1, 2}
\* The log ratios psis_weights is given: two levels, so that values repeat
PsisRatios == {0, 1}
RetCodes == {0, TERM_LSFAIL, -2, 1}
\* The parallel driver only asks whether a code is 0 or TERM_LSFAIL.
ParRetCodes == {0, TERM_LSFAIL, 1}

--------------------------------------------------------------------------
\* Exact arithmetic.
Abs(a) == IF a < 0 THEN 0 - a ELSE a

Min(a, b) == IF a <= b THEN a ELSE b

RECURSIVE Gcd(_, _)
Gcd(a, b) == IF b = 0 THEN a ELSE Gcd(b, a % b)

RECURSIVE Pow10(_)
Pow10(k) == IF k = 0 THEN 1 ELSE 10 * Pow10(k - 1)

\* a * 10^e <= b for naturals a, b below 2^31, without leaving 32 bits.
LeqPow10(a, e, b) ==
    IF e >= 0
    THEN IF e > 9 THEN a = 0 ELSE a <= b \div Pow10(e)
    ELSE IF 0 - e > 9 THEN a = 0 \/ b >= 1
         ELSE (a + Pow10(0 - e) - 1) \div Pow10(0 - e) <= b

\* Rationals <<n, d>> with d > 0, in lowest terms.
RNorm(n, d) ==
    LET g == Gcd(Abs(n), Abs(d))
        sgn == IF d < 0 THEN -1 ELSE 1
    IN  <<sgn * (n \div g), sgn * (d \div g)>>

RInt(n) == <<n, 1>>
\* Common factors are cancelled before multiplying, to stay within 32 bits.
RAdd(p, q) ==
    LET g == Gcd(p[2], q[2])
    IN  RNorm(p[1] * (q[2] \div g) + q[1] * (p[2] \div g), (p[2] \div g) * q[2])
RNeg(p) == <<0 - p[1], p[2]>>
RSub(p, q) == RAdd(p, RNeg(q))
RMul(p, q) ==
    LET a == RNorm(p[1], q[2])
        b == RNorm(q[1], p[2])
    IN  RNorm(a[1] * b[1], a[2] * b[2])
RDiv(p, q) == RMul(p, RNorm(q[2], q[1]))
RPos(p) == p[1] > 0

RECURSIVE RSum(_, _)
RSum(f, n) == IF n = 0 THEN RInt(0) ELSE RAdd(RSum(f, n - 1), f[n])

RECURSIVE SumTo(_, _)
SumTo(f, n) == IF n = 0 THEN 0 ELSE SumTo(f, n - 1) + f[n]

\* Eigen vectors: [m |-> mantissas, e |-> exponent].
Vec(m, e) == [m |-> m, e |-> e]
VSize(v) == Len(v.m)
\* a - b (operator- of two vectors of the same unit)
VSub(a, b) == Vec([i \in 1..Len(a.m) |-> a.m[i] - b.m[i]], a.e)
\* a.dot(b): the mantissa of the product, whose exponent is a.e + b.e
Dot(a, b) == SumTo([i \in 1..Len(a.m) |-> a.m[i] * b.m[i]], Len(a.m))

NoVec == Vec(<<>>, 0)

--------------------------------------------------------------------------
\* internal::check_curve(Yk, Sk) and optimize::check_curve, one column:
\*   Dk = Yk.dot(Sk);  thetak = |Yk.square().sum() / Dk|;
\*   return Dk > 0 && thetak <= 1e12
\* thetak = (Yk.Yk / |Dk|) * 10^(Yk.e - Sk.e), compared without dividing.
check_curve(Yk, Sk) ==
    LET Dk == Dot(Yk, Sk)
    IN  /\ Dk > 0
        /\ LeqPow10(Dot(Yk, Yk), Yk.e - Sk.e - ThetaMaxExp, Abs(Dk))

\* internal::form_diag(alpha_init, Yk, Sk), eq. 4.9 of Gilbert & Lemarechal.
\* Every term of the denominator has the unit of Yk squared, so the result
\* has exponent Sk.e - Yk.e whatever the exponent of alpha_init is.
form_diag(alpha_init, Yk, Sk) ==
    LET n == Len(Yk.m)
        a(i) == alpha_init.m[i]
        y(i) == RInt(Yk.m[i])
        s(i) == RInt(Sk.m[i])
        y_alpha_y == RSum([i \in 1..n |-> RMul(a(i), RMul(y(i), y(i)))], n)
        y_s == RInt(Dot(Yk, Sk))
        s_inv_alpha_s == RSum([i \in 1..n |-> RDiv(RMul(s(i), s(i)), a(i))], n)
        den(i) == RSub(RAdd(RDiv(y_alpha_y, a(i)), RMul(y(i), y(i))),
                       RMul(RDiv(y_alpha_y, s_inv_alpha_s),
                            RMul(RDiv(s(i), a(i)), RDiv(s(i), a(i)))))
    IN  Vec([i \in 1..n |-> RDiv(y_s, den(i))], Sk.e - Yk.e)

\* Eigen::VectorXd::Ones(num_parameters)
Ones(n) == Vec([i \in 1..n |-> RInt(1)], 0)

--------------------------------------------------------------------------
\* boost::circular_buffer<T>(capacity): a ring of capacity slots.
\* first is the slot of the oldest element, size the number of elements.
cb_new(capacity) ==
    [buf |-> [i \in 0..capacity - 1 |-> NoVec], first |-> 0, size |-> 0]

cb_capacity(cb) == Cardinality(DOMAIN cb.buf)

\* push_back: into the free slot after the newest element; when the buffer
\* is full the oldest element is overwritten and the ring advances.
cb_push_back(cb, v) ==
    LET cap == cb_capacity(cb)
    IN  IF cb.size = cap
        THEN [cb EXCEPT !.buf[cb.first] = v,
                        !.first = (cb.first + 1) % cap]
        ELSE [cb EXCEPT !.buf[(cb.first + cb.size) % cap] = v,
                        !.size = cb.size + 1]

\* A faulty operator[]: the slot i of the ring, whatever its rotation
cb_at_unrotated(cb, i) == cb.buf[i % cb_capacity(cb)]

\* operator[](i): the i-th oldest element, i from 0
cb_at(cb, i) == cb.buf[(cb.first + i) % cb_capacity(cb)]

\* back(): the newest element
cb_back(cb) == cb_at(cb, cb.size - 1)

--------------------------------------------------------------------------
\* taylor_approx_t, as far as its shape goes (the entries of L_approx and Qk
\* are floating-point factorisations); tag names the iterate it was built at.
NoTaylor ==
    [use_full |-> FALSE, Qk_rows |-> 0, Qk_cols |-> 0, L_rows |-> 0,
     L_cols |-> 0, tag |-> -1]

\* internal::taylor_approximation_full: L_hk is d x d, Qk is MatrixXd(0, 0)
taylor_approximation_full(rows, cols, tag) ==
    [use_full |-> TRUE, Qk_rows |-> 0, Qk_cols |-> 0, L_rows |-> rows,
     L_cols |-> rows, tag |-> tag]

\* internal::taylor_approximation_sparse: min_size = min(num_params, 2 * n),
\* Qk = householderQ * Identity(num_params, min_size), L_approx min_size^2
taylor_approximation_sparse(rows, cols, tag) ==
    LET min_size == Min(rows, 2 * cols)
    IN  [use_full |-> FALSE, Qk_rows |-> rows, Qk_cols |-> min_size,
         L_rows |-> min_size, L_cols |-> min_size, tag |-> tag]

\* A faulty dispatch: dense only when 2 * cols exceeds rows
taylor_approximation_strict(rows, cols, tag) ==
    IF 2 * cols > rows
    THEN taylor_approximation_full(rows, cols, tag)
    ELSE taylor_approximation_sparse(rows, cols, tag)

\* internal::taylor_approximation on a Ykt_mat of rows x cols
taylor_approximation(rows, cols, tag) ==
    IF 2 * cols >= rows
    THEN taylor_approximation_full(rows, cols, tag)
    ELSE taylor_approximation_sparse(rows, cols, tag)

\* No call of taylor_approximation on its own is under way
TaylorUnused ==
    /\ taylor_Ykt_mat = [rows |-> 0, cols |-> 0]
    /\ taylor_result = NoTaylor

\* elbo_est_t with empty matrices: the ELBO and, as tag, the iterate whose
\* draws it holds.
Elbo(e, tag) ==
    [elbo |-> e, tag |-> tag, fn_calls |-> 0, repeat_draws |-> <<>>,
     lp_mat |-> <<>>, lp_ratio |-> <<>>]

--------------------------------------------------------------------------
\* internal::est_approx_draws.

\* What lp_fun does on one draw: it returns a value or throws std::exception
LpValue(v) == [throws |-> FALSE, value |-> v]
LpThrows == [throws |-> TRUE, value |-> 0]

\* a - b where a may be -infinity and b is finite
InfSub(a, b) == IF a = NegInf THEN NegInf ELSE a - b

\* Eigen's mean(): -infinity as soon as one entry is; the finite entries of
\* the model are multiples of their number, so the quotient is exact
mean(v) ==
    IF \E i \in 1..Len(v) : v[i] = NegInf
    THEN NegInf
    ELSE SumTo(v, Len(v)) \div Len(v)

\* A faulty loop: the first throw ends it, later rows stay at -infinity
est_lp_mat_break(lp_approx, lp_fun_out) ==
    [i \in 1..Len(lp_fun_out) |->
        <<lp_approx[i],
          IF \E j \in 1..i : lp_fun_out[j].throws
          THEN NegInf ELSE lp_fun_out[i].value>>]

\* lines 432-456: row i is <<approximate log density, lp_fun of draw i>>,
\* the latter -infinity when lp_fun threw; every draw is evaluated
est_lp_mat(lp_approx, lp_fun_out) ==
    [i \in 1..Len(lp_fun_out) |->
        <<lp_approx[i],
          IF lp_fun_out[i].throws THEN NegInf ELSE lp_fun_out[i].value>>]

\* A faulty tail: the ELBO is the mean whatever ReturnElbo is
est_elbo_always(ReturnElbo, lp_ratio) == mean(lp_ratio)

\* lines 458-467: the ELBO is computed only when ReturnElbo is set
est_elbo(ReturnElbo, lp_ratio) ==
    IF ReturnElbo THEN mean(lp_ratio) ELSE NegInf

\* The draws are named by the iterate and their index; kind tells the draws
\* of the ELBO estimate from the ones drawn after the loop.
approx_samples(n, kind, tag) ==
    [i \in 1..n |-> [kind |-> kind, tag |-> tag, idx |-> i]]

est_approx_draws(ReturnElbo, lp_approx, lp_fun_out, tag) ==
    LET n == Len(lp_fun_out)
        lp_mat == est_lp_mat(lp_approx, lp_fun_out)
        lp_ratio == [i \in 1..n |-> InfSub(lp_mat[i][2], lp_mat[i][1])]
    IN  [elbo |-> est_elbo(ReturnElbo, lp_ratio), tag |-> tag,
         fn_calls |-> n,
         repeat_draws |->
             approx_samples(n, IF ReturnElbo THEN "elbo" ELSE "final", tag),
         lp_mat |-> lp_mat, lp_ratio |-> lp_ratio]

\* The approximate log density of the draws of the drivers' model, lp_mat.col(0)
LpApprox(n) == [i \in 1..n |-> 0]
\* What lp_fun does on the n draws of one ELBO estimate of the sequential
\* driver: it returns 0 on all, or n on the first, or it throws on the first.
LpOutcomes(n) ==
    {[i \in 1..n |-> LpValue(0)],
     [i \in 1..n |-> IF i = 1 THEN LpValue(n) ELSE LpValue(0)],
     [i \in 1..n |-> IF i = 1 THEN LpThrows ELSE LpValue(0)]}

\* No call of est_approx_draws on its own is under way
EstUnused ==
    /\ est_args = [ReturnElbo |-> FALSE, lp_approx |-> <<>>,
                   lp_fun_out |-> <<>>]
    /\ est_result = Elbo(NegInf, -1)

\* Eigen::Array<double, -1, -1>: its row count and its columns
Matrix(rows, cols) == [rows |-> rows, cols |-> cols]

\* Final sampling: try is the place of the try block (lines 1014-1045) that
\* threw, -1 for none, 0 for est_approx_draws, c for constrain_fun on column
\* c; fallback tells that constrain_fun threw where no handler is around it
NotThrown == [try |-> -1, fallback |-> FALSE]

NoRes == [lp_fun_out |-> <<>>, first |-> Elbo(NegInf, -1)]

\* Neither quick_sort nor psis_weights is under way
DiagUnused == diag_args = <<>> /\ diag_result = <<>>

PsisUnused ==
    /\ arr = <<>> /\ idx = <<>> /\ qs = <<>>
    /\ sort_args = [arr |-> <<>>, idx |-> <<>>]
    /\ lw_i = <<>>
    /\ psis = [log_ratios_i |-> <<>>, tail_len_i |-> 0,
               max_n |-> [top_n |-> <<>>, top_n_idx |-> <<>>],
               smoothed |-> <<>>]

\* Nothing has left the entry point yet; num_draws is not read before the
\* loop has ended, and the model draws it there.
OutInit ==
    /\ pathfinder_res = NoRes
    /\ exception = "none"
    /\ num_draws = 0
    /\ final_thrown = NotThrown
    /\ out_lp_ratio = <<>>
    /\ out_draws = Matrix(0, <<>>)
    /\ written = <<>>

--------------------------------------------------------------------------
\* The optimizer (stan::optimization::BFGSLineSearch, an external
\* collaborator): lbfgs.step() advances iter_num and returns a code with a
\* new point and gradient.  It returns a non-zero code at maxIts at the
\* latest; on TERM_LSFAIL the point and gradient are those of the step before.
lbfgs_step(r, x, g, maxIts) ==
    /\ lbfgs.iter_num + 1 >= maxIts => r # 0
    /\ r = TERM_LSFAIL => x = lbfgs.curr_x.m /\ g = lbfgs.curr_g.m
    /\ lbfgs' = [iter_num |-> lbfgs.iter_num + 1, curr_x |-> Vec(x, 0),
                 curr_g |-> Vec(g, gexp)]
    /\ ret' = r

\* cont_vector after util::initialize and its log_prob_grad
InitX == [i \in 1..NumParams |-> 0]
InitG == [i \in 1..NumParams |-> 0]

lbfgs_init ==
    /\ gexp \in GradExps
    /\ history_size \in 1..MaxHist
    /\ lbfgs = [iter_num |-> 0, curr_x |-> Vec(InitX, 0),
                curr_g |-> Vec(InitG, gexp)]
    /\ ret = 0

--------------------------------------------------------------------------
\* Sequential driver, pathfinder::pathfinder_lbfgs_single.

\* lines 929-931: check_curve is handed param_buff.back() as Yk and
\* grad_buff.back() as Sk; form_diag is handed the gradients as Yk.
seq_check_curve(pb, gb) == check_curve(cb_back(pb), cb_back(gb))

seq_alpha(al, pb, gb) ==
    IF seq_check_curve(pb, gb)
    THEN form_diag(al, cb_back(gb), cb_back(pb))
    ELSE al

\* lines 932-941: column i of the map is buffer element i
seq_fill(cb, n) == [i \in 1..n |-> cb_at(cb, i - 1)]

\* A faulty comparison: an equal ELBO replaces the record too
seq_is_better_or_equal(e, best) == e >= best.elbo

\* A faulty comparison: the first iterate scored becomes the best one
\* whatever its ELBO
seq_is_better_or_first(e, best) == e > best.elbo \/ best.tag = -1

\* lines 953-957: the best record is replaced on a strictly greater ELBO
seq_is_better(e, best) == e > best.elbo

\* The driver's rng and the generator rand_unit_gaus of line 1949, as the
\* number of draws each has been asked for after the ELBO estimates
NoDraws == [rng |-> 0, gaus |-> 0]

SeqUnused ==
    /\ param_vecs = <<>> /\ grad_vecs = <<>> /\ param_cols_filled = 0
    /\ Ykt_diff = <<>> /\ Skt_diff = <<>> /\ check_curve_vec = <<>>
    /\ alpha_mat = <<>> /\ task = <<>> /\ update_best_mutex = 0
    /\ elbo_fit_best = Elbo(Lowest, -1)
    /\ ftask = <<>> /\ rng_pos = NoDraws

\* lines 806-879
SeqInit ==
    /\ driver = "seq"
    /\ pc = "loop"
    /\ lbfgs_init
    /\ best_E = -1
    /\ taylor_approx_best = NoTaylor
    /\ elbo_best = Elbo(NegInf, -1)
    /\ scored = {}
    /\ prev_params = Vec(InitX, 0)
    /\ prev_grads = Vec(InitG, gexp)
    /\ param_buff = cb_new(history_size)
    /\ grad_buff = cb_new(history_size)
    /\ current_history_size = 0
    /\ alpha = Ones(NumParams)
    /\ Ykt_mat = <<>>
    /\ Skt_mat = <<>>
    /\ pushed = <<>>
    /\ return_code = "none"
    /\ calls = <<>>
    /\ SeqUnused
    /\ TaylorUnused /\ EstUnused /\ OutInit /\ PsisUnused
    /\ DiagUnused

\* lines 922-947: the new pair goes into the buffers, alpha is updated and
\* the columns of Ykt_mat and Skt_mat are filled
SeqPush ==
    LET it == lbfgs'.iter_num
        s == VSub(lbfgs'.curr_x, prev_params)
        y == VSub(lbfgs'.curr_g, prev_grads)
        pb == cb_push_back(param_buff, s)
        gb == cb_push_back(grad_buff, y)
        chs == Min(current_history_size + 1, history_size)
    IN  /\ param_buff' = pb
        /\ grad_buff' = gb
        /\ prev_params' = lbfgs'.curr_x
        /\ prev_grads' = lbfgs'.curr_g
        /\ current_history_size' = chs
        /\ alpha' = seq_alpha(alpha, pb, gb)
        /\ Ykt_mat' = seq_fill(gb, chs)
        /\ Skt_mat' = seq_fill(pb, chs)
        /\ pushed' = Append(pushed, [s |-> s, y |-> y, iter |-> it])

\* lines 713-716: Rk is the upper triangle of Skt_mat' * Ykt_mat, in the
\* unit of the products of the mantissas
pathfinder_Rk(Ykt, Skt) ==
    [i \in 1..Len(Ykt) |->
        [j \in 1..Len(Ykt) |-> IF i <= j THEN Dot(Skt[i], Ykt[j]) ELSE 0]]

\* line 720: Eigen::VectorXd Dk = Rk.diagonal()
pathfinder_Dk(Ykt, Skt) ==
    [k \in 1..Len(Ykt) |-> pathfinder_Rk(Ykt, Skt)[k][k]]

\* The draws of an ELBO estimate on which lp_fun threw
Threw(res) == {i \in DOMAIN res.lp_fun_out : res.lp_fun_out[i].throws}

\* lines 700-744, internal::pathfinder_impl when nothing escapes it: the
\* pair of the ELBO estimate and the approximation of the iterate
pathfinder_impl(lp_fun_out, cols, it) ==
    [first |-> est_approx_draws(TRUE, LpApprox(Len(lp_fun_out)), lp_fun_out, it),
     second |-> taylor_approximation(NumParams, cols, it)]

\* lines 949-957: pathfinder_impl builds the approximation of the iterate
\* and estimates its ELBO from the draws lp_fun is given; the best record
\* follows
SeqScore(lp_fun_out) ==
    \E res \in {pathfinder_impl(lp_fun_out, current_history_size',
                                lbfgs'.iter_num)} :
    LET it == lbfgs'.iter_num
        better == seq_is_better(res.first.elbo, elbo_best)
    IN  /\ elbo_best' = IF better THEN res.first ELSE elbo_best
        /\ taylor_approx_best' = IF better THEN res.second ELSE taylor_approx_best
        /\ best_E' = IF better THEN it ELSE best_E
        /\ pathfinder_res' = [lp_fun_out |-> lp_fun_out, first |-> res.first]
        /\ scored' = scored \cup {[iter |-> it, elbo |-> res.first.elbo,
                                   threw |-> Threw(pathfinder_res')]}
        /\ exception' = exception
        /\ pc' = IF ret' = 0 THEN "loop" ELSE "after"

\* A faulty test: no error code of the optimizer is pushed and scored
seq_pushes_no_error(r) == r >= 0

\* line 922: if (likely(ret != -1))
seq_pushes(r) == r # TERM_LSFAIL

\* A faulty pass: the optimizer steps before interrupt() is called
loop_pass_step_first(r) == <<<<"step", r>>, <<"interrupt">>>>

\* lines 882-884: a pass of the loop calls interrupt(), then lbfgs.step(),
\* whose code is r
loop_pass(r) == <<<<"interrupt">>, <<"step", r>>>>

\* lines 880-970: one pass of  while (ret == 0)
SeqStep ==
    /\ driver = "seq" /\ pc = "loop" /\ ret = 0
    /\ \E r \in RetCodes, x \in XDomain, g \in GDomain :
          /\ lbfgs_step(r, x, g, MaxIter)
          /\ calls' = calls \o loop_pass(r)
          /\ IF seq_pushes(r)
             THEN /\ SeqPush
                  /\ \E lp_fun_out \in LpOutcomes(num_elbo_draws) :
                        SeqScore(lp_fun_out)
             ELSE /\ pc' = IF r = 0 THEN "loop" ELSE "after"
                  /\ UNCHANGED <<param_buff, grad_buff, prev_params,
                                 prev_grads, current_history_size, alpha,
                                 Ykt_mat, Skt_mat, elbo_best,
                                 taylor_approx_best, best_E, pushed, scored,
                                 pathfinder_res, exception>>
    /\ UNCHANGED <<driver, gexp, history_size, return_code, parVars, fnVars,
                   num_draws, final_thrown, out_lp_ratio, out_draws, written>>

\* The optimizer and the history buffers are not read after line 991, and
\* an exception unwinds them: the model returns them to their constructed
\* values.  The best record stays as the result of the run.
SeqLeave ==
    /\ lbfgs' = [iter_num |-> 0, curr_x |-> Vec(InitX, 0),
                 curr_g |-> Vec(InitG, gexp)]
    /\ ret' = 0
    /\ prev_params' = Vec(InitX, 0)
    /\ prev_grads' = Vec(InitG, gexp)
    /\ param_buff' = cb_new(history_size)
    /\ grad_buff' = cb_new(history_size)
    /\ current_history_size' = 0
    /\ alpha' = Ones(NumParams)
    /\ Ykt_mat' = <<>> /\ Skt_mat' = <<>>
    /\ pushed' = <<>>

\* lines 729-732: taylor_approximation is called before the try block of
\* pathfinder_impl (line 733), and the driver has no handler around line
\* 949: what it throws in a pass of the loop leaves the entry point
SeqTaylorThrows ==
    /\ driver = "seq" /\ pc = "loop" /\ ret = 0
    /\ exception' = "taylor_approximation"
    /\ pc' = "thrown"
    /\ \E r \in RetCodes \ {TERM_LSFAIL} :
          /\ lbfgs.iter_num + 1 >= MaxIter => r # 0
          /\ calls' = calls \o loop_pass(r)
    /\ SeqLeave
    /\ UNCHANGED <<driver, gexp, history_size, best_E, taylor_approx_best,
                   scored, elbo_best, return_code, parVars, fnVars,
                   pathfinder_res, num_draws, final_thrown, out_lp_ratio,
                   out_draws, written>>

\* line 882: interrupt() is called at the top of every pass, outside any
\* try block: what it throws leaves the entry point
SeqInterrupted ==
    /\ driver = "seq" /\ pc = "loop" /\ ret = 0
    /\ exception' = "interrupt"
    /\ pc' = "thrown"
    /\ calls' = Append(calls, <<"interrupt">>)
    /\ SeqLeave
    /\ UNCHANGED <<driver, gexp, history_size, best_E, taylor_approx_best,
                   scored, elbo_best, return_code, parVars, fnVars,
                   pathfinder_res, num_draws, final_thrown, out_lp_ratio,
                   out_draws, written>>

\* lines 836-840: the names of the constrained parameters, then lp_approx__
\* and lp__; the model of the run has one constrained name more than it has
\* unconstrained parameters
constrained_param_names == NumParams + 1
\* A faulty count: the two log density names are left out
names_size_no_lp == constrained_param_names
names_size == constrained_param_names + 2

\* num_draws may be below, at or above num_elbo_draws
NumDraws == {num_elbo_draws - 1, num_elbo_draws, num_elbo_draws + 1}

\* What lp_fun does on the n additional draws: 0 on all, or it throws on the
\* first
FinalLpOutcomes(n) ==
    {[i \in 1..n |-> LpValue(0)],
     [i \in 1..n |-> IF i = 1 THEN LpThrows ELSE LpValue(0)]}

\* Where final sampling may throw when num_draws is M and K draws are held
FinalThrown(M, K) ==
    IF M > K
    THEN {NotThrown} \cup [try : 0..M, fallback : BOOLEAN]
    ELSE [try : {-1}, fallback : BOOLEAN]

\* A column of constrained_draws_mat: the constrained draw over the row of
\* lp_mat that is its tail(2); Unfilled is a column nothing was assigned to
Column(draw, tail) == [draw |-> draw, tail |-> tail]
Unfilled == Column([kind |-> "none", tag |-> -1, idx |-> 0], <<>>)

\* lines 839-840: the last two names of the header
lp_names == <<"lp_approx__", "lp__">>

\* A faulty tail: the target log density above the approximate one
seq_cols_lp_first(est) ==
    [i \in 1..Len(est.repeat_draws) |->
        Column(est.repeat_draws[i], <<est.lp_mat[i][2], est.lp_mat[i][1]>>)]

\* lines 1031-1037 (1058-1064, 1072-1078), lines 1038-1045
seq_cols(est) ==
    [i \in 1..Len(est.repeat_draws) |->
        Column(est.repeat_draws[i], est.lp_mat[i])]

\* lines 1027-1045: constrained_draws_mat as it is when the try block threw
\* at place c: not allocated before est_approx_draws has returned, else
\* filled up to the column before c
seq_attempt(best, est, c) ==
    LET all == seq_cols(best) \o seq_cols(est)
    IN  IF c = 0
        THEN Matrix(0, <<>>)
        ELSE Matrix(names_size,
                    [i \in 1..Len(all) |-> IF i < c THEN all[i] ELSE Unfilled])

\* A faulty handler: it keeps the matrix of the failed attempt
seq_fallback_keep(best, attempt) ==
    IF attempt.rows = 0 THEN Matrix(names_size, seq_cols(best)) ELSE attempt

\* lines 1054-1064: the handler allocates a matrix of elbo_draws.cols()
\* columns and fills it from the ELBO draws of the best record
seq_fallback(best, attempt) == Matrix(names_size, seq_cols(best))

\* lines 1006-1095: what the driver returns and writes from the best record
\* best when num_draws is M, lp_fun does lp_fun_out on the additional draws
\* and final sampling throws as thrown tells
seq_final(best, M, lp_fun_out, thrown) ==
    LET remaining_draws == M - Len(best.lp_ratio)
        est_draws == est_approx_draws(FALSE, LpApprox(Len(lp_fun_out)),
                                      lp_fun_out, best.tag)
    IN  IF thrown.fallback
        THEN [escaped |-> TRUE, lp_ratio |-> <<>>, draws |-> Matrix(0, <<>>)]
        ELSE IF remaining_draws > 0 /\ thrown.try = -1
        THEN [escaped |-> FALSE,
              lp_ratio |-> best.lp_ratio \o est_draws.lp_ratio,
              draws |-> Matrix(names_size,
                               seq_cols(best) \o seq_cols(est_draws))]
        ELSE IF remaining_draws > 0
        THEN [escaped |-> FALSE, lp_ratio |-> best.lp_ratio,
              draws |-> seq_fallback(best,
                                     seq_attempt(best, est_draws, thrown.try))]
        ELSE [escaped |-> FALSE, lp_ratio |-> best.lp_ratio,
              draws |-> Matrix(names_size, seq_cols(best))]

\* A faulty return: OK without a best iterate
seq_no_best_ok ==
    [return_code |-> "OK", lp_ratio |-> <<>>, draws |-> Matrix(0, <<>>)]

\* lines 996-998: ret_pathfinder(SOFTWARE, Array(0), Array(0, 0), num_evals)
seq_no_best ==
    [return_code |-> "SOFTWARE", lp_ratio |-> <<>>, draws |-> Matrix(0, <<>>)]

\* lines 992-998: no best iterate
SeqNoBest ==
    /\ return_code' = seq_no_best.return_code
    /\ out_lp_ratio' = seq_no_best.lp_ratio
    /\ out_draws' = seq_no_best.draws
    /\ pc' = "done"
    /\ UNCHANGED <<num_draws, final_thrown, written, exception>>

\* lines 1006-1095
SeqFinal(M, lp_fun_out, thrown) ==
    LET f == seq_final(elbo_best, M, lp_fun_out, thrown)
    IN  /\ num_draws' = M
        /\ final_thrown' = thrown
        /\ IF f.escaped
           THEN /\ exception' = "constrain_fun"
                /\ pc' = "thrown"
                /\ UNCHANGED <<return_code, out_lp_ratio, out_draws, written>>
           ELSE /\ return_code' = "OK"
                /\ out_lp_ratio' = f.lp_ratio
                /\ out_draws' = f.draws
                /\ written' = Append(written, f.draws)
                /\ pc' = "done"
                /\ exception' = exception

\* lines 971-991: the loop has ended; the code of the optimizer is logged
\* and its evaluations are counted
SeqAfter ==
    /\ driver = "seq" /\ pc = "after"
    /\ pc' = "final"
    /\ SeqLeave
    /\ UNCHANGED <<driver, gexp, history_size, best_E, taylor_approx_best,
                   scored, elbo_best, return_code, calls, parVars, fnVars, outVars>>

\* lines 992-1095: without a best iterate the driver returns SOFTWARE,
\* otherwise it emits the draws of the best iterate and returns OK.
SeqReturn ==
    /\ driver = "seq" /\ pc = "final"
    /\ IF best_E = -1
       THEN SeqNoBest
       ELSE \E M \in NumDraws :
               \E lp_fun_out \in
                     FinalLpOutcomes(M - Len(elbo_best.lp_ratio)),
                  thrown \in FinalThrown(M, Len(elbo_best.lp_ratio)) :
                  SeqFinal(M, lp_fun_out, thrown)
    /\ UNCHANGED <<driver, gexp, history_size, lbfgs, ret, best_E,
                   taylor_approx_best, scored, prev_params, prev_grads,
                   param_buff, grad_buff, current_history_size, alpha,
                   Ykt_mat, Skt_mat, elbo_best, pushed, calls, parVars,
                   fnVars,
                   pathfinder_res>>

SeqNext ==
    SeqStep \/ SeqInterrupted \/ SeqTaylorThrows \/ SeqAfter \/ SeqReturn

SpecSeq == SeqInit /\ [][SeqNext]_vars

--------------------------------------------------------------------------
\* Parallel driver, optimize::pathfinder_lbfgs_single.

\* std::vector v, element i (from 0)
at(v, i) == v[i + 1]

\* What an uninitialised Eigen::Index may hold (line 1812 declares best_E
\* without a value): any number; these stand for an index and a non-index.
Indeterminate == {-1, 0}

ParUnused ==
    /\ prev_params = NoVec /\ prev_grads = NoVec
    /\ param_buff = cb_new(0) /\ grad_buff = cb_new(0)
    /\ current_history_size = 0 /\ alpha = NoVec
    /\ Ykt_mat = <<>> /\ Skt_mat = <<>>
    /\ elbo_best = Elbo(NegInf, -1) /\ pushed = <<>>

\* lines 1620-1681
ParInit ==
    /\ driver = "par"
    /\ pc = "loop"
    /\ lbfgs_init
    /\ gexp = 0
    /\ param_vecs = <<Vec(InitX, 0)>>
    /\ grad_vecs = <<Vec(InitG, gexp)>>
    /\ param_cols_filled = 0
    /\ Ykt_diff = <<>> /\ Skt_diff = <<>> /\ check_curve_vec = <<>>
    /\ alpha_mat = <<>> /\ task = <<>>
    /\ update_best_mutex = 0
    /\ elbo_fit_best = Elbo(Lowest, -1)
    /\ ftask = <<>> /\ rng_pos = NoDraws
    /\ taylor_approx_best = NoTaylor
    /\ best_E = -1
    /\ scored = {}
    /\ return_code = "none"
    /\ calls = <<>>
    /\ ParUnused
    /\ TaylorUnused /\ EstUnused /\ OutInit /\ PsisUnused
    /\ DiagUnused

\* lines 1682-1730: one pass of  while (ret == 0)
ParStep ==
    /\ driver = "par" /\ pc = "loop" /\ ret = 0
    /\ \E r \in ParRetCodes, x \in XDomain, g \in GDomain :
          /\ lbfgs_step(r, x, g, ParMaxIter)
          /\ IF r # TERM_LSFAIL
             THEN /\ param_vecs' = Append(param_vecs, lbfgs'.curr_x)
                  /\ grad_vecs' = Append(grad_vecs, lbfgs'.curr_g)
                  /\ param_cols_filled' = param_cols_filled + 1
             ELSE UNCHANGED <<param_vecs, grad_vecs, param_cols_filled>>
          /\ pc' = IF r = 0 THEN "loop" ELSE "setup"
    /\ UNCHANGED <<driver, gexp, history_size, best_E, taylor_approx_best,
                   scored, seqVars, fnVars, outVars, Ykt_diff, Skt_diff,
                   check_curve_vec, alpha_mat, task, update_best_mutex,
                   elbo_fit_best, ftask, rng_pos>>

\* line 1684: interrupt() is called at the top of every pass, outside any
\* try block: what it throws leaves the entry point and unwinds the
\* optimizer and the stored points
ParInterrupted ==
    /\ driver = "par" /\ pc = "loop" /\ ret = 0
    /\ exception' = "interrupt"
    /\ pc' = "thrown"
    /\ lbfgs' = [iter_num |-> 0, curr_x |-> Vec(InitX, 0),
                 curr_g |-> Vec(InitG, gexp)]
    /\ param_vecs' = <<Vec(InitX, 0)>>
    /\ grad_vecs' = <<Vec(InitG, gexp)>>
    /\ param_cols_filled' = 0
    /\ UNCHANGED <<driver, gexp, history_size, ret, best_E,
                   taylor_approx_best, scored, seqVars, fnVars,
                   pathfinder_res, num_draws, final_thrown, out_lp_ratio,
                   out_draws, written, Ykt_diff, Skt_diff, check_curve_vec,
                   alpha_mat, task, update_best_mutex, elbo_fit_best, ftask,
                   rng_pos>>

\* lines 1745-1750: Ykt_diff holds the differences of the parameters and
\* Skt_diff those of the gradients
par_Ykt_diff(n) == [i \in 0..n - 1 |-> VSub(at(param_vecs, i + 1), at(param_vecs, i))]

par_Skt_diff(n) == [i \in 0..n - 1 |-> VSub(at(grad_vecs, i + 1), at(grad_vecs, i))]

\* line 1753: check_curve(Ykt_diff, Skt_diff), column by column
par_check_curve(Yd, Sd, n) == [i \in 0..n - 1 |-> check_curve(Yd[i], Sd[i])]

\* lines 1754-1762: column 0 is ones whatever check_curve_vec[0] says
RECURSIVE par_alpha_col(_, _, _, _)
par_alpha_col(iter, Yd, Sd, ccv) ==
    IF iter = 0 THEN Ones(NumParams)
    ELSE LET prev == par_alpha_col(iter - 1, Yd, Sd, ccv)
             \* the stored column, its num_parameters entries evaluated
             col == Vec(prev.m \o <<>>, prev.e)
         IN  IF ccv[iter] /\ VSize(col) = NumParams
             THEN form_diag(col, Yd[iter], Sd[iter])
             ELSE col

\* line 1798: "We always push the first one no matter what"
par_force_first(ccv) == [ccv EXCEPT ![0] = TRUE]

NoTask ==
    [pc |-> "start", ys_cols |-> <<>>, Ykt_h |-> <<>>, Skt_mat |-> <<>>,
     elbo_est |-> Elbo(Lowest, -1), taylor_appx |-> NoTaylor, rngs |-> {}]

\* lines 1745-1815, up to the parallel_for.  Without a stored step diff_size
\* is 0 and alpha_mat.col(0), check_curve_vec[0] are out of range: undefined.
ParSetup ==
    /\ driver = "par" /\ pc = "setup"
    /\ IF param_cols_filled = 0
       THEN /\ pc' = "undefined"
            /\ UNCHANGED <<Ykt_diff, Skt_diff, check_curve_vec, alpha_mat,
                           task, best_E>>
       ELSE LET n == param_cols_filled
                Yd == par_Ykt_diff(n)
                Sd == par_Skt_diff(n)
                ccv == par_check_curve(Yd, Sd, n)
            IN  /\ Ykt_diff' = Yd
                /\ Skt_diff' = Sd
                /\ alpha_mat' = [i \in 0..n - 1 |-> par_alpha_col(i, Yd, Sd, ccv)]
                /\ check_curve_vec' = par_force_first(ccv)
                /\ task' = [i \in 0..n - 1 |-> NoTask]
                /\ best_E' \in Indeterminate
                /\ pc' = "tasks"
    /\ UNCHANGED <<driver, gexp, history_size, lbfgs, ret, taylor_approx_best,
                   scored, seqVars, fnVars, outVars, param_vecs, grad_vecs,
                   param_cols_filled, update_best_mutex, elbo_fit_best,
                   ftask, rng_pos>>

\* lines 1826-1837: from iter back to 0, the accepted columns, at most
\* history_size of them
RECURSIVE par_ys_cols(_, _)
par_ys_cols(end_iter, cols) ==
    IF end_iter < 0 THEN cols
    ELSE LET c1 == IF check_curve_vec[end_iter]
                   THEN Append(cols, end_iter) ELSE cols
         IN  IF Len(c1) = history_size THEN c1
             ELSE par_ys_cols(end_iter - 1, c1)

\* optimize::construct_taylor_approximation on Ykt_h (n vectors of size d).
\* Its _full and _sparse build the shapes of the internal:: ones: Qk is
\* MatrixXd(0, 0) (line 1450), min_size = min(2n, d) (line 1483).
construct_taylor_approximation(n, d, tag) ==
    IF 2 * n >= d
    THEN taylor_approximation_full(d, n, tag)
    ELSE taylor_approximation_sparse(d, n, tag)

TaskFrame ==
    UNCHANGED <<driver, pc, gexp, history_size, lbfgs, ret, seqVars, fnVars,
                outVars, param_vecs, grad_vecs, param_cols_filled, Ykt_diff,
                Skt_diff, check_curve_vec, alpha_mat, ftask, rng_pos>>

\* line 1885: rand_unit_gaus(rng_vec[iter], ...)
par_task_rng(iter) == <<"rng_vec", iter>>

\* lines 1817-1819: tbb starts the body for iter; the generator it draws
\* from is the one of line 1885
TaskBegin(iter) ==
    /\ driver = "par" /\ pc = "tasks" /\ task[iter].pc = "start"
    /\ task' = [task EXCEPT ![iter].pc = "own",
                            ![iter].rngs = {par_task_rng(iter)}]
    /\ UNCHANGED <<best_E, taylor_approx_best, elbo_fit_best,
                   update_best_mutex, scored>>
    /\ TaskFrame

\* lines 1820-1903: the task's own work for iter, up to the lock; e is the
\* ELBO that est_elbo_draws estimates for this iterate.
TaskScore(iter) ==
    /\ driver = "par" /\ pc = "tasks" /\ task[iter].pc = "own"
    /\ \E e \in ElboValues :
          LET cols == par_ys_cols(iter, <<>>)
              n == Len(cols)
          IN  /\ task' = [task EXCEPT ![iter] =
                    [pc |-> "wait",
                     ys_cols |-> cols,
                     Ykt_h |-> [i \in 1..n |-> Ykt_diff[cols[i]]],
                     Skt_mat |-> [i \in 1..n |-> Skt_diff[cols[i]]],
                     elbo_est |-> Elbo(e, iter),
                     taylor_appx |-> construct_taylor_approximation(n, NumParams, iter),
                     rngs |-> {}]]
              /\ scored' = scored \cup {[iter |-> iter, elbo |-> e]}
    /\ UNCHANGED <<best_E, taylor_approx_best, elbo_fit_best, update_best_mutex>>
    /\ TaskFrame

\* A faulty lock: it is granted whoever holds it
par_can_lock_always(iter) == TRUE

\* line 1908: std::lock_guard<std::mutex> guard(update_best_mutex)
par_can_lock(iter) == update_best_mutex = 0

TaskLock(iter) ==
    /\ driver = "par" /\ pc = "tasks" /\ task[iter].pc = "wait"
    /\ par_can_lock(iter)
    /\ update_best_mutex' = iter + 1
    /\ task' = [task EXCEPT ![iter].pc = "compare"]
    /\ UNCHANGED <<best_E, taylor_approx_best, elbo_fit_best, scored>>
    /\ TaskFrame

\* A faulty comparison: the lower ELBO wins
par_is_better_reversed(est, best) == est.elbo < best.elbo

\* line 1909: if (elbo_est.elbo > elbo_fit_best.elbo)
par_is_better(est, best) == est.elbo > best.elbo

TaskCompare(iter) ==
    /\ driver = "par" /\ pc = "tasks" /\ task[iter].pc = "compare"
    /\ task' = [task EXCEPT ![iter].pc =
                   IF par_is_better(task[iter].elbo_est, elbo_fit_best)
                   THEN "write_elbo" ELSE "unlock"]
    /\ UNCHANGED <<best_E, taylor_approx_best, elbo_fit_best, scored,
                   update_best_mutex>>
    /\ TaskFrame

\* line 1910: elbo_fit_best = std::move(elbo_est)
TaskWriteElbo(iter) ==
    /\ driver = "par" /\ pc = "tasks" /\ task[iter].pc = "write_elbo"
    /\ elbo_fit_best' = task[iter].elbo_est
    /\ task' = [task EXCEPT ![iter].pc = "write_taylor"]
    /\ UNCHANGED <<best_E, taylor_approx_best, scored, update_best_mutex>>
    /\ TaskFrame

\* line 1911: taylor_approx_best = std::move(taylor_appx_tuple)
TaskWriteTaylor(iter) ==
    /\ driver = "par" /\ pc = "tasks" /\ task[iter].pc = "write_taylor"
    /\ taylor_approx_best' = task[iter].taylor_appx
    /\ task' = [task EXCEPT ![iter].pc = "write_best_E"]
    /\ UNCHANGED <<best_E, elbo_fit_best, scored, update_best_mutex>>
    /\ TaskFrame

\* line 1912: best_E = iter
TaskWriteBestE(iter) ==
    /\ driver = "par" /\ pc = "tasks" /\ task[iter].pc = "write_best_E"
    /\ best_E' = iter
    /\ task' = [task EXCEPT ![iter].pc = "unlock"]
    /\ UNCHANGED <<taylor_approx_best, elbo_fit_best, scored, update_best_mutex>>
    /\ TaskFrame

\* line 1914: the guard leaves its scope
TaskUnlock(iter) ==
    /\ driver = "par" /\ pc = "tasks" /\ task[iter].pc = "unlock"
    /\ update_best_mutex' = IF update_best_mutex = iter + 1 THEN 0
                            ELSE update_best_mutex
    /\ task' = [task EXCEPT ![iter].pc = "done"]
    /\ UNCHANGED <<best_E, taylor_approx_best, elbo_fit_best, scored>>
    /\ TaskFrame

\* line 1916: parallel_for returns when every iteration has run
ParJoined == \A i \in DOMAIN task : task[i].pc = "done"

\* tbb::blocked_range<Eigen::Index>(b, e, grain) under parallel_for: a range
\* is divisible while its size exceeds the grainsize, a split is at the
\* middle, and the partitioner is free to split a divisible range or to run
\* it as one task.  The set of the sequences of ranges that may be run.
RECURSIVE blocked_range(_, _, _)
blocked_range(b, e, grain) ==
    {<<[begin |-> b, end |-> e]>>} \cup
    IF e - b > grain
    THEN LET m == b + (e - b) \div 2
         IN  {p \o q : p \in blocked_range(b, m, grain),
                       q \in blocked_range(m, e, grain)}
    ELSE {}

\* num_draws is num_elbo_draws, or more by a range that cannot be split, or
\* more by the least range that can
ParNumDraws ==
    {num_elbo_draws, num_elbo_draws + FinalGrain,
     num_elbo_draws + FinalGrain + 1}

\* A task of a parallel_for over draws: its range, its position, the
\* generators it is using, where their streams stood when it began, and
\* whether another task used one of them at the same time
FTask(r) ==
    [begin |-> r.begin, end |-> r.end, pc |-> "start", rngs |-> {},
     gaus_from |-> -1, rng_from |-> -1, raced |-> FALSE]

\* The columns a finished task has filled
Block(ft, kind) ==
    [begin |-> ft.begin, end |-> ft.end, kind |-> kind,
     tag |-> elbo_fit_best.tag, gaus_from |-> ft.gaus_from,
     rng_from |-> ft.rng_from, raced |-> ft.raced]

Blocks(kind) == [i \in DOMAIN ftask |-> Block(ftask[i], kind)]

\* The entries of lp_ratio behind a block: line 1929 for the ELBO draws,
\* lines 1974-1976 for the others
RatioBlock(blk) ==
    [begin |-> blk.begin, end |-> blk.end, kind |-> blk.kind,
     tag |-> blk.tag, gaus_from |-> blk.gaus_from, raced |-> blk.raced]

\* The generators a task of the running parallel_for uses: the driver's rng
\* in model.write_array (lines 1940, 1971), and rand_unit_gaus over
\* rng_vec[best_E] through rnorm (lines 1949-1950, 1965)
par_final_rngs(phase) ==
    IF phase = "constrain"
    THEN {<<"rng", 0>>}
    ELSE {<<"rng", 0>>, <<"rng_vec", best_E>>}

FJoined == \A i \in DOMAIN ftask : ftask[i].pc = "done"

\* The optimizer, the stored points and the tasks' frames are not read after
\* the join (alpha_mat.col(best_E) is, at line 1966, for values the model
\* does not hold): the model returns them to their constructed values.
ParLeave ==
    /\ lbfgs' = [iter_num |-> 0, curr_x |-> Vec(InitX, 0),
                 curr_g |-> Vec(InitG, gexp)]
    /\ ret' = 0
    /\ param_vecs' = <<Vec(InitX, 0)>>
    /\ grad_vecs' = <<Vec(InitG, gexp)>>
    /\ param_cols_filled' = 0
    /\ Ykt_diff' = <<>> /\ Skt_diff' = <<>> /\ check_curve_vec' = <<>>
    /\ alpha_mat' = <<>> /\ task' = <<>>

\* lines 1916-1932: the parallel_for over the iterates has returned.  If no
\* task wrote the best record, elbo_fit_best.lp_mat is empty and best_E was
\* never assigned: reading them at lines 1929 and 1950 is undefined.
\* Otherwise the output is allocated and the parallel_for over the ELBO
\* draws starts.
ParJoin ==
    /\ driver = "par" /\ pc = "tasks" /\ ParJoined
    /\ IF elbo_fit_best.tag = -1
       THEN /\ pc' = "undefined"
            /\ UNCHANGED <<num_draws, ftask, rng_pos>>
       ELSE \E M \in ParNumDraws,
               p \in blocked_range(0, num_elbo_draws, ElboGrain) :
               /\ num_draws' = M
               /\ ftask' = [i \in 1..Len(p) |-> FTask(p[i])]
               /\ rng_pos' = NoDraws
               /\ pc' = "constrain"
    /\ ParLeave
    /\ UNCHANGED <<driver, gexp, history_size, best_E, taylor_approx_best,
                   scored, seqVars, fnVars, update_best_mutex, elbo_fit_best,
                   pathfinder_res, exception, final_thrown, out_lp_ratio,
                   out_draws, written>>

FTaskFrame ==
    UNCHANGED <<driver, pc, gexp, history_size, lbfgs, ret, best_E,
                taylor_approx_best, scored, seqVars, fnVars, outVars,
                param_vecs, grad_vecs, param_cols_filled, Ykt_diff, Skt_diff,
                check_curve_vec, alpha_mat, task, update_best_mutex,
                elbo_fit_best>>

\* lines 1933-1936, 1961-1968: a task of the parallel_for over draws begins;
\* it takes its draws from the shared generators where their streams stand.
\* Two tasks that use a generator at once race on its state.
FTaskBegin(i) ==
    /\ driver = "par" /\ pc \in {"constrain", "final"}
    /\ ftask[i].pc = "start"
    /\ LET size == ftask[i].end - ftask[i].begin
           uses == par_final_rngs(pc)
           others == {j \in DOMAIN ftask \ {i} :
                         ftask[j].pc = "busy" /\ ftask[j].rngs \cap uses # {}}
       IN  /\ ftask' =
                [j \in DOMAIN ftask |->
                    IF j = i
                    THEN [ftask[i] EXCEPT
                             !.pc = "busy", !.rngs = uses,
                             !.gaus_from = IF pc = "final"
                                           THEN rng_pos.gaus ELSE -1,
                             !.rng_from = rng_pos.rng,
                             !.raced = others # {}]
                    ELSE IF j \in others
                    THEN [ftask[j] EXCEPT !.raced = TRUE]
                    ELSE ftask[j]]
           /\ rng_pos' =
                [rng |-> rng_pos.rng + size,
                 gaus |-> IF pc = "final" THEN rng_pos.gaus + size
                          ELSE rng_pos.gaus]
    /\ FTaskFrame

\* lines 1937-1946, 1969-1980: the task has filled its columns
FTaskEnd(i) ==
    /\ driver = "par" /\ pc \in {"constrain", "final"}
    /\ ftask[i].pc = "busy"
    /\ ftask' = [ftask EXCEPT ![i].pc = "done", ![i].rngs = {}]
    /\ UNCHANGED rng_pos
    /\ FTaskFrame

\* lines 1948-1960: the ELBO draws are in the matrix and num_draws asks for
\* more: the parallel_for over the other draws starts
ParFinalDraws ==
    /\ driver = "par" /\ pc = "constrain" /\ FJoined
    /\ num_draws - num_elbo_draws > 0
    /\ out_draws' = Matrix(names_size, Blocks("elbo"))
    /\ out_lp_ratio' = [i \in DOMAIN ftask |-> RatioBlock(Block(ftask[i], "elbo"))]
    /\ \E p \in blocked_range(num_elbo_draws, num_draws, FinalGrain) :
          ftask' = [i \in 1..Len(p) |-> FTask(p[i])]
    /\ pc' = "final"
    /\ UNCHANGED <<driver, gexp, history_size, lbfgs, ret, best_E,
                   taylor_approx_best, scored, seqVars, fnVars,
                   param_vecs, grad_vecs, param_cols_filled, Ykt_diff,
                   Skt_diff, check_curve_vec, alpha_mat, task,
                   update_best_mutex, elbo_fit_best, rng_pos,
                   pathfinder_res, exception, num_draws, final_thrown,
                   written>>

\* lines 1982-2009: the matrix is written and the driver returns 0
ParReturn ==
    /\ driver = "par"
    /\ \/ pc = "constrain" /\ FJoined /\ num_draws - num_elbo_draws <= 0
       \/ pc = "final" /\ FJoined
    /\ LET kind == IF pc = "constrain" THEN "elbo" ELSE "final"
           before == IF pc = "constrain" THEN <<>> ELSE out_draws.cols
           ratios == IF pc = "constrain" THEN <<>> ELSE out_lp_ratio
       IN  /\ out_draws' = Matrix(names_size, before \o Blocks(kind))
           /\ out_lp_ratio' =
                 ratios \o [i \in DOMAIN ftask |->
                              RatioBlock(Block(ftask[i], kind))]
    /\ written' = <<out_draws'>>
    /\ ftask' = <<>>
    /\ pc' = "done"
    /\ return_code' = "OK"
    /\ UNCHANGED <<driver, gexp, history_size, lbfgs, ret, best_E,
                   taylor_approx_best, scored, prev_params, prev_grads,
                   param_buff, grad_buff, current_history_size, alpha,
                   Ykt_mat, Skt_mat, elbo_best, pushed, calls, fnVars,
                   param_vecs, grad_vecs, param_cols_filled, Ykt_diff,
                   Skt_diff, check_curve_vec, alpha_mat, task,
                   update_best_mutex, elbo_fit_best, rng_pos,
                   pathfinder_res, exception, num_draws, final_thrown>>

ParTask ==
    \E iter \in DOMAIN task :
        \/ TaskBegin(iter)
        \/ TaskScore(iter)
        \/ TaskLock(iter)
        \/ TaskCompare(iter)
        \/ TaskWriteElbo(iter)
        \/ TaskWriteTaylor(iter)
        \/ TaskWriteBestE(iter)
        \/ TaskUnlock(iter)

ParFTask == \E i \in DOMAIN ftask : FTaskBegin(i) \/ FTaskEnd(i)

ParNext ==
    \/ ParStep \/ ParInterrupted \/ ParSetup \/ ParTask \/ ParJoin
    \/ ParFTask \/ ParFinalDraws \/ ParReturn

SpecPar == ParInit /\ [][ParNext]_vars

--------------------------------------------------------------------------
\* psis::internal::quick_sort (PSIS companion, part_000).  Arrays are indexed
\* from 0 as in the source: at(v, i) is element i.
swap(v, a, b) == [v EXCEPT ![a + 1] = at(v, b), ![b + 1] = at(v, a)]

\* A faulty pass: idx does not follow arr
partition_pass_arr_only(st, j, pivot) ==
    IF at(st.arr, j) <= pivot
    THEN [arr |-> swap(st.arr, st.i + 1, j), idx |-> st.idx, i |-> st.i + 1]
    ELSE st

\* lines 155-163, one pass of the loop: if (arr[j] <= pivot) { ++i; swap(arr
\* i, j); swap(idx i, j); }
partition_pass(st, j, pivot) ==
    IF at(st.arr, j) <= pivot
    THEN [arr |-> swap(st.arr, st.i + 1, j),
          idx |-> swap(st.idx, st.i + 1, j), i |-> st.i + 1]
    ELSE st

\* The passes j = a..b in order; the range is halved so that the depth of
\* the evaluation is logarithmic in the length of the array.
RECURSIVE partition_loop(_, _, _, _)
partition_loop(st, a, b, pivot) ==
    IF a > b THEN st
    ELSE IF a = b THEN partition_pass(st, a, pivot)
    ELSE CHOOSE r \in
            {partition_loop(h, (a + b) \div 2 + 1, b, pivot) :
                h \in {partition_loop(st, a, (a + b) \div 2, pivot)}} : TRUE

\* lines 148-167: [arr, idx] after the call and i + 1, the place of the pivot
quick_sort_partition(a, ix, low, high) ==
    CHOOSE r \in
       {[arr |-> swap(st.arr, st.i + 1, high),
         idx |-> swap(st.idx, st.i + 1, high), i |-> st.i + 1] :
           st \in {partition_loop(s0, low, high - 1, at(a, high)) :
                      s0 \in {[arr |-> a, idx |-> ix, i |-> low - 1]}}} : TRUE

\* Faulty sub-sorts: both take the pivot's place
quick_sort_ranges_shared(low, high, partition_index) ==
    <<<<low, partition_index>>, <<partition_index, high>>>>

\* lines 181-185: the two sub-sorts, [low, partition_index - 1] first
quick_sort_ranges(low, high, partition_index) ==
    <<<<low, partition_index - 1>>, <<partition_index + 1, high>>>>

\* line 180: the sub-sorts are given to tbb::parallel_invoke
quick_sort_forks(low, high) == high - low >= ParallelSortSize

\* One call quick_sort(arr, idx, low, high) up to its sub-sorts, which are
\* left as frames <<low, high>> to be called
quick_sort_call(a, ix, low, high) ==
    IF low < high
    THEN CHOOSE r \in
            {[arr |-> p.arr, idx |-> p.idx,
              subsorts |-> quick_sort_ranges(low, high, p.i)] :
                p \in {quick_sort_partition(a, ix, low, high)}} : TRUE
    ELSE [arr |-> a, idx |-> ix, subsorts |-> <<>>]

\* The recursion on one thread: the next pending call of st is made
quick_sort_next(st) ==
    IF st.stack = <<>> THEN st
    ELSE CHOOSE r \in
            {[arr |-> c.arr, idx |-> c.idx,
              stack |-> c.subsorts \o Tail(st.stack)] :
                c \in {quick_sort_call(st.arr, st.idx, st.stack[1][1],
                                       st.stack[1][2])}} : TRUE

\* n pending calls are made in order
RECURSIVE quick_sort_run(_, _)
quick_sort_run(st, n) ==
    IF n <= 1 THEN quick_sort_next(st)
    ELSE CHOOSE r \in
            {quick_sort_run(h, n - n \div 2) :
                h \in {quick_sort_run(st, n \div 2)}} : TRUE

\* lines 173-193 on one thread: quick_sort(arr, idx) makes at most
\* 2 * size + 1 calls
quick_sort(a, ix) ==
    quick_sort_run([arr |-> a, idx |-> ix, stack |-> <<<<0, Len(a) - 1>>>>],
                   2 * Len(a) + 1)

\* A thread in quick_sort: the calls it has still to make, the thread that
\* forked it (0: the caller of quick_sort) and the range it was forked with
SortTask(low, high, parent) ==
    [stack |-> <<<<low, high>>>>, parent |-> parent,
     low |-> low, high |-> high]

\* The thread has made all its calls and the threads it forked have returned
RECURSIVE SortReturned(_)
SortReturned(t) ==
    /\ qs[t].stack = <<>>
    /\ \A c \in DOMAIN qs : qs[c].parent = t => SortReturned(c)

\* quick_sort has returned to its caller
SortDone == qs # <<>> /\ SortReturned(1)

\* quick_sort(arr, idx) is called
SortBegin(a, ix) ==
    /\ arr' = a /\ idx' = ix
    /\ sort_args' = [arr |-> a, idx |-> ix]
    /\ qs' = <<SortTask(0, Len(a) - 1, 0)>>

PsisFrame ==
    UNCHANGED <<driver, gexp, history_size, lbfgs, ret, best_E,
                taylor_approx_best, scored, seqVars, parVars, taylor_Ykt_mat,
                taylor_result, est_args, est_result, diagVars, outVars>>

\* lines 174-188: thread t makes its next call; parallel_invoke returns when
\* both sub-sorts have
QsCall(t) ==
    /\ driver \in {"sort", "psis"} /\ pc = "sort"
    /\ qs[t].stack # <<>>
    /\ \A c \in DOMAIN qs : qs[c].parent = t => SortReturned(c)
    /\ LET low == qs[t].stack[1][1]
           high == qs[t].stack[1][2]
       IN  \E c \in {quick_sort_call(arr, idx, low, high)} :
              /\ arr' = c.arr /\ idx' = c.idx
              /\ qs' = IF c.subsorts # <<>> /\ quick_sort_forks(low, high)
                       THEN [qs EXCEPT ![t].stack = Tail(@)] \o
                            [k \in 1..2 |->
                                SortTask(c.subsorts[k][1], c.subsorts[k][2], t)]
                       ELSE [qs EXCEPT ![t].stack = c.subsorts \o Tail(@)]
    /\ UNCHANGED <<pc, sort_args, lw_i, psis>>
    /\ PsisFrame

QuickSort == \E t \in DOMAIN qs : QsCall(t)

--------------------------------------------------------------------------
\* psis::psis_weights and its helpers.

\* Eigen's LinSpaced(size, low, high) for an integer scalar
LinSpaced(size, low, high) ==
    LET span == Abs(high - low) + 1
        multiplier == (high - low) \div (IF size <= 1 THEN 1 ELSE size - 1)
        divisor == ((IF high >= low THEN size ELSE 0 - size) + (high - low))
                      \div span
    IN  [k \in 1..size |->
            IF size > 1 /\ span < size
            THEN low + (k - 1) \div divisor
            ELSE low + (k - 1) * multiplier]

\* v.tail(n)
tail(v, n) == SubSeq(v, Len(v) - n + 1, Len(v))
maxCoeff(v) == CHOOSE x \in {v[k] : k \in DOMAIN v} :
                  \A k \in DOMAIN v : v[k] <= x
minCoeff(v) == CHOOSE x \in {v[k] : k \in DOMAIN v} :
                  \A k \in DOMAIN v : x <= v[k]

\* lines 195-214: the place in the ascending top_n where value goes
RECURSIVE max_n_probe(_, _, _, _)
max_n_probe(top_n, value, low_idx, high_idx) ==
    IF high_idx - low_idx > 1
    THEN LET probe_idx == (low_idx + high_idx) \div 2
         IN  IF at(top_n, probe_idx) > value
             THEN max_n_probe(top_n, value, low_idx, probe_idx)
             ELSE max_n_probe(top_n, value, probe_idx, high_idx)
    ELSE high_idx

max_n_insertion_start(top_n, value) ==
    LET top_size == Len(top_n)
        high_idx == max_n_probe(top_n, value, -1, top_size)
    IN  IF high_idx = top_size THEN top_size - 1 ELSE high_idx - 1

\* lines 226-233: the entries up to starting_pos move down by one and the
\* new one goes to starting_pos
max_n_insert(v, starting_pos, x) ==
    [k \in 1..Len(v) |->
        IF k - 1 < starting_pos THEN at(v, k)
        ELSE IF k - 1 = starting_pos THEN x
        ELSE v[k]]

\* lines 222-235: for (i = from; i < to; ++i), on the sorted head
RECURSIVE max_n_scan(_, _, _, _)
max_n_scan(top, lw, from, to) ==
    IF from >= to THEN top
    ELSE IF at(lw, from) >= at(top.top_n, 0)
    THEN LET starting_pos == max_n_insertion_start(top.top_n, at(lw, from))
         IN  max_n_scan(
                [top_n |-> max_n_insert(top.top_n, starting_pos, at(lw, from)),
                 top_n_idx |-> max_n_insert(top.top_n_idx, starting_pos,
                                            from)],
                lw, from + 1, to)
    ELSE max_n_scan(top, lw, from + 1, to)

\* A faulty reinsertion: the smoothed values go to the first places of lw_i
RECURSIVE insert_smooth_in_place(_, _, _, _)
insert_smooth_in_place(lw, ix, smoothed, i) ==
    IF i >= Len(ix) THEN lw
    ELSE insert_smooth_in_place([lw EXCEPT ![i + 1] = at(smoothed, i)],
                                ix, smoothed, i + 1)

\* lines 239-246: lw_i.coeffRef(idx.coeff(i)) = smoothed.coeff(i), i in order
RECURSIVE insert_smooth_to_tail(_, _, _, _)
insert_smooth_to_tail(lw, ix, smoothed, i) ==
    IF i >= Len(ix) THEN lw
    ELSE insert_smooth_to_tail([lw EXCEPT ![at(ix, i) + 1] = at(smoothed, i)],
                               ix, smoothed, i + 1)

\* lines 127-141: x itself when the fitted k is infinite, else the log of
\* the fitted quantiles shifted by exp(cutoff).  The quantiles are floating
\* point; the model takes values above the cutoff that grow with i.
psis_smooth_tail(x, cutoff) ==
    {x, [i \in 1..Len(x) |-> cutoff + i]}

\* lines 249-256: the ratios are shifted by their maximum; with tail_len_i
\* >= 5 max_n_elements takes the head of lw_i and sorts it (lines 218-221)
PsisShift ==
    /\ driver = "psis" /\ pc = "call"
    /\ lw_i' = [k \in DOMAIN psis.log_ratios_i |->
                   psis.log_ratios_i[k] - maxCoeff(psis.log_ratios_i)]
    /\ IF psis.tail_len_i >= MinTailLen
       THEN /\ SortBegin(SubSeq(lw_i', 1, psis.tail_len_i + 1),
                         LinSpaced(psis.tail_len_i + 1, 0,
                                   psis.tail_len_i + 1))
            /\ pc' = "sort"
       ELSE /\ pc' = "truncate"
            /\ UNCHANGED <<arr, idx, qs, sort_args>>
    /\ UNCHANGED psis
    /\ PsisFrame

\* lines 222-267: the rest of max_n_elements, the tail and the cutoff, and
\* unless the tail is flat its smoothed values are put into lw_i
PsisTail ==
    /\ driver = "psis" /\ pc = "sort" /\ SortDone
    /\ LET n == psis.tail_len_i + 1
           max_n == max_n_scan([top_n |-> arr, top_n_idx |-> idx], lw_i, n, n)
           lw_tail == tail(max_n.top_n, psis.tail_len_i)
           cutoff == at(max_n.top_n, 0)
       IN  IF maxCoeff(lw_tail) - minCoeff(lw_tail) <= 0
           THEN /\ psis' = [psis EXCEPT !.max_n = max_n]
                /\ UNCHANGED lw_i
           ELSE \E smoothed \in psis_smooth_tail(lw_tail, cutoff) :
                   /\ psis' = [psis EXCEPT !.max_n = max_n,
                                           !.smoothed = smoothed]
                   /\ lw_i' = insert_smooth_to_tail(
                                 lw_i, tail(max_n.top_n_idx,
                                            psis.tail_len_i),
                                 smoothed, 0)
    /\ pc' = "truncate"
    /\ UNCHANGED <<arr, idx, qs, sort_args>>
    /\ PsisFrame

\* lines 270-278: the weights are truncated at 0, the maximum of the raw ones
PsisTruncate ==
    /\ driver = "psis" /\ pc = "truncate"
    /\ lw_i' = [k \in DOMAIN lw_i |-> IF lw_i[k] > 0 THEN 0 ELSE lw_i[k]]
    /\ pc' = "done"
    /\ UNCHANGED <<arr, idx, qs, sort_args, psis>>
    /\ PsisFrame

DriversUnused ==
    /\ gexp = 0 /\ history_size = 1 /\ lbfgs_init
    /\ best_E = -1 /\ taylor_approx_best = NoTaylor /\ scored = {}
    /\ return_code = "none"
    /\ calls = <<>>
    /\ SeqUnused /\ ParUnused /\ TaylorUnused /\ EstUnused /\ OutInit

\* psis_weights(log_ratios_i, tail_len_i) is called
PsisInit ==
    /\ driver = "psis" /\ pc = "call"
    /\ \E S \in MinTailLen + 1..MaxS :
          psis \in [log_ratios_i : [1..S -> PsisRatios],
                    tail_len_i : MinTailLen - 1..S - 1,
                    max_n : {[top_n |-> <<>>, top_n_idx |-> <<>>]},
                    smoothed : {<<>>}]
    /\ lw_i = <<>>
    /\ arr = <<>> /\ idx = <<>> /\ qs = <<>>
    /\ sort_args = [arr |-> <<>>, idx |-> <<>>]
    /\ DriversUnused /\ DiagUnused

PsisNext == PsisShift \/ QuickSort \/ PsisTail \/ PsisTruncate

SpecPsis == PsisInit /\ [][PsisNext]_vars

\* An array of more than ParallelSortSize elements: the residues k * 37 in
\* this order, with the pivot given as last element
LongArray(n, pivot) ==
    [k \in 1..n |-> IF k = n THEN pivot ELSE (k * 37) % n]

LongArrays ==
    {LongArray(ParallelSortSize + 1, 4),
     LongArray(ParallelSortSize + 2, ParallelSortSize - 2),
     LongArray(ParallelSortSize + 1, ParallelSortSize)}

\* quick_sort(arr, idx) is called: on every short array, idx counting up or
\* down, and on the long ones
SortInit ==
    /\ driver = "sort" /\ pc = "sort"
    /\ \E a \in LongArrays \cup
                UNION {[1..n -> LogRatios] : n \in 0..MaxLen} :
       \E down \in IF Len(a) > MaxLen THEN {FALSE} ELSE BOOLEAN :
          /\ arr = a
          /\ idx = [k \in 1..Len(a) |-> IF down THEN Len(a) - k ELSE k - 1]
    /\ sort_args = [arr |-> arr, idx |-> idx]
    /\ qs = <<SortTask(0, Len(arr) - 1, 0)>>
    /\ lw_i = <<>>
    /\ psis = [log_ratios_i |-> <<>>, tail_len_i |-> 0,
               max_n |-> [top_n |-> <<>>, top_n_idx |-> <<>>],
               smoothed |-> <<>>]
    /\ DriversUnused /\ DiagUnused

SpecSort == SortInit /\ [][QuickSort]_vars

\* The threads of quick_sort are scheduled until they return
SpecSortLive == SpecSort /\ WF_vars(QuickSort)

--------------------------------------------------------------------------
\* internal::taylor_approximation as a function of the shape of Ykt_mat
TaylorInit ==
    /\ driver = "taylor"
    /\ pc = "call"
    /\ taylor_Ykt_mat \in [rows : 1..MaxRows, cols : 1..MaxCols]
    /\ taylor_result = NoTaylor
    /\ gexp = 0 /\ history_size = 1 /\ lbfgs_init
    /\ best_E = -1 /\ taylor_approx_best = NoTaylor /\ scored = {}
    /\ return_code = "none"
    /\ calls = <<>>
    /\ SeqUnused /\ ParUnused /\ EstUnused /\ OutInit /\ PsisUnused
    /\ DiagUnused

TaylorCall ==
    /\ driver = "taylor" /\ pc = "call"
    /\ taylor_result' =
          taylor_approximation(taylor_Ykt_mat.rows, taylor_Ykt_mat.cols, 0)
    /\ pc' = "done"
    /\ UNCHANGED <<driver, gexp, history_size, lbfgs, ret, best_E,
                   taylor_approx_best, scored, seqVars, parVars,
                   taylor_Ykt_mat, est_args, est_result, outVars,
                   psisVars, diagVars>>

SpecTaylor == TaylorInit /\ [][TaylorCall]_vars

--------------------------------------------------------------------------
\* internal::est_approx_draws as a function of ReturnElbo, of the approximate
\* log densities of the draws and of what lp_fun does on each of them
LpOuts ==
    {LpThrows, LpValue(NegInf), LpValue(0), LpValue(num_elbo_draws)}

EstInit ==
    /\ driver = "est"
    /\ pc = "call"
    /\ est_args \in [ReturnElbo : BOOLEAN,
                     lp_approx : [1..num_elbo_draws -> {0, num_elbo_draws}],
                     lp_fun_out : [1..num_elbo_draws -> LpOuts]]
    /\ est_result = Elbo(NegInf, -1)
    /\ gexp = 0 /\ history_size = 1 /\ lbfgs_init
    /\ best_E = -1 /\ taylor_approx_best = NoTaylor /\ scored = {}
    /\ return_code = "none"
    /\ calls = <<>>
    /\ SeqUnused /\ ParUnused /\ TaylorUnused /\ OutInit /\ PsisUnused
    /\ DiagUnused

EstCall ==
    /\ driver = "est" /\ pc = "call"
    /\ est_result' = est_approx_draws(est_args.ReturnElbo, est_args.lp_approx,
                                      est_args.lp_fun_out, 0)
    /\ pc' = "done"
    /\ UNCHANGED <<driver, gexp, history_size, lbfgs, ret, best_E,
                   taylor_approx_best, scored, seqVars, parVars,
                   taylor_Ykt_mat, taylor_result, est_args, outVars,
                   psisVars, diagVars>>

SpecElbo == EstInit /\ [][EstCall]_vars

--------------------------------------------------------------------------
\* internal::form_diag in the arithmetic of double.  A double of the model
\* is m * 2^e with an odd mantissa m of at most MantissaBits bits (0 is
\* Float(0, 0)); every operation returns the double nearest to the exact
\* result, ties to the even mantissa.  Exponents are not bounded.
Float(m, e) == [m |-> m, e |-> e]

\* What a division by zero returns: an infinity or a NaN
NotFinite == [m |-> 0, e |-> 1]

\* The number of bits of a natural below 2^30
BitLength(n) == CHOOSE k \in 0..30 : n < 2^k /\ (k = 0 \/ n >= 2^(k - 1))

\* The number of zero bits a positive natural ends with
TrailingZeros(n) == CHOOSE t \in 0..29 : n % 2^t = 0 /\ n % 2^(t + 1) # 0

\* The double nearest to n * 2^e
fl_round(n, e) ==
    IF n = 0 THEN Float(0, 0)
    ELSE LET a == Abs(n)
             k == IF BitLength(a) > MantissaBits
                  THEN BitLength(a) - MantissaBits ELSE 0
             q == a \div 2^k
             r == a % 2^k
             up == k > 0 /\ (2 * r > 2^k \/ (2 * r = 2^k /\ q % 2 = 1))
             m == IF up THEN q + 1 ELSE q
             t == TrailingZeros(m)
         IN  Float((IF n < 0 THEN -1 ELSE 1) * (m \div 2^t), e + k + t)

\* operator* on doubles
fl_mul(x, y) == fl_round(x.m * y.m, x.e + y.e)

\* operator/ on doubles: the quotient is taken to 2 * MantissaBits + 3 bits
\* and its last bit tells whether anything was left
fl_div(x, y) ==
    IF y.m = 0 THEN NotFinite
    ELSE LET k == 2 * MantissaBits + 2
             n == (Abs(x.m) * 2^k) \div Abs(y.m)
             sticky == IF (Abs(x.m) * 2^k) % Abs(y.m) = 0 THEN 0 ELSE 1
             sign == IF (x.m < 0) # (y.m < 0) THEN -1 ELSE 1
         IN  fl_round(sign * (2 * n + sticky), x.e - y.e - k - 1)

\* operator+ on doubles: a term more than 2 * MantissaBits + 2 binary places
\* below the other one only tells the direction of the rounding
fl_add(x, y) ==
    IF x.m = 0 THEN y
    ELSE IF y.m = 0 THEN x
    ELSE LET hi == IF x.e >= y.e THEN x ELSE y
             lo == IF x.e >= y.e THEN y ELSE x
             d == hi.e - lo.e
         IN  IF d > 2 * MantissaBits + 2
             THEN fl_round(hi.m * 2^(MantissaBits + 3)
                              + (IF lo.m < 0 THEN -1 ELSE 1),
                           hi.e - MantissaBits - 3)
             ELSE fl_round(hi.m * 2^d + lo.m, lo.e)

\* operator- on doubles
fl_sub(x, y) == fl_add(x, Float(0 - y.m, y.e))

\* Eigen's dot() on vectors of n doubles, summed in the order of the index
RECURSIVE fl_dot(_, _, _)
fl_dot(u, v, n) ==
    IF n = 0 THEN Float(0, 0)
    ELSE fl_add(fl_dot(u, v, n - 1), fl_mul(u[n], v[n]))

\* lines 271-282, internal::form_diag, operation by operation
form_diag_double(alpha_init, Yk, Sk) ==
    LET n == Len(Yk)
        square(x) == fl_mul(x, x)
        y_alpha_y == fl_dot(Yk, [i \in 1..n |-> fl_mul(alpha_init[i], Yk[i])],
                            n)
        y_s == fl_dot(Yk, Sk, n)
        s_inv_alpha_s ==
            fl_dot(Sk, [i \in 1..n |->
                           fl_mul(fl_div(Float(1, 0), alpha_init[i]), Sk[i])],
                   n)
        den(i) == fl_sub(fl_add(fl_div(y_alpha_y, alpha_init[i]),
                                square(Yk[i])),
                         fl_mul(fl_div(y_alpha_y, s_inv_alpha_s),
                                square(fl_div(Sk[i], alpha_init[i]))))
    IN  [i \in 1..n |-> fl_div(y_s, den(i))]

\* lines 247-254, check_curve on doubles: Dk > 0 and thetak <= 1e12; the
\* model's thetak are below 2^39, which is below 1e12
check_curve_double(Yk, Sk) ==
    LET Dk == fl_dot(Yk, Sk, Len(Yk))
        thetak == fl_div(fl_dot(Yk, Yk, Len(Yk)), Dk)
    IN  /\ Dk.m > 0
        /\ BitLength(Abs(thetak.m)) + thetak.e <= 39

\* The components of alpha_init, all positive, and of Yk and Sk
AlphaValues == {Float(1, 0), Float(3, 0)}
DiagValues == {Float(0, 0), Float(1, 0), Float(5, 0), Float(1, -10)}

\* form_diag(alpha_init, Yk, Sk) is called, as at lines 929-930, on a pair
\* that check_curve has accepted
DiagInit ==
    /\ driver = "diag" /\ pc = "call"
    /\ \E d \in 1..MaxDim :
          diag_args \in [alpha_init : [1..d -> AlphaValues],
                         Yk : [1..d -> DiagValues],
                         Sk : [1..d -> DiagValues]]
    /\ check_curve_double(diag_args.Yk, diag_args.Sk)
    /\ diag_result = <<>>
    /\ DriversUnused /\ PsisUnused

FormDiagCall ==
    /\ driver = "diag" /\ pc = "call"
    /\ diag_result' = form_diag_double(diag_args.alpha_init, diag_args.Yk,
                                       diag_args.Sk)
    /\ pc' = "done"
    /\ UNCHANGED <<driver, gexp, history_size, lbfgs, ret, best_E,
                   taylor_approx_best, scored, seqVars, parVars,
                   taylor_Ykt_mat, taylor_result, est_args, est_result,
                   psisVars, diag_args, outVars>>

SpecDiag == DiagInit /\ [][FormDiagCall]_vars

--------------------------------------------------------------------------
Init ==
    \/ SeqInit \/ ParInit \/ TaylorInit \/ EstInit \/ PsisInit \/ SortInit
    \/ DiagInit

Next ==
    SeqNext \/ ParNext \/ TaylorCall \/ EstCall \/ PsisNext \/ FormDiagCall

Spec == Init /\ [][Next]_vars

--------------------------------------------------------------------------
\* Properties of the two drivers.  Throughout, s is a difference of
\* parameters and y the matching difference of gradients, and
\* check_curve(y, s) is the curvature check on the pair:
\*   s'y > 0  and  |y|^2 / (s'y) <= 1e12.

\* The pairs the sequential driver holds in its two buffers
SeqHistory ==
    [i \in 1..param_buff.size |->
        [s |-> cb_at(param_buff, i - 1), y |-> cb_at(grad_buff, i - 1)]]

\* The pairs behind the columns that task iter selected
ParHistory(iter) ==
    [k \in 1..Len(task[iter].ys_cols) |->
        [s |-> Ykt_diff[task[iter].ys_cols[k]],
         y |-> Skt_diff[task[iter].ys_cols[k]]]]

\* The tasks of the parallel_for that have built their history
ParBuilt == {i \in DOMAIN task : task[i].pc # "start"}

\* C1: every pair retained in the history (the sequential buffers, and the
\* columns a parallel task selects) passed the curvature check.
C1_HistoryPassedCheck ==
    /\ driver = "seq" =>
          \A i \in DOMAIN SeqHistory :
             check_curve(SeqHistory[i].y, SeqHistory[i].s)
    /\ driver = "par" =>
          \A iter \in ParBuilt : \A k \in DOMAIN ParHistory(iter) :
             check_curve(ParHistory(iter)[k].y, ParHistory(iter)[k].s)

C3_SeqAlphaFrame ==
    /\ driver = "seq" => alpha = Ones(NumParams)
    /\ [][(SeqStep /\ ret' # TERM_LSFAIL) =>
             LET s == cb_back(param_buff')
                 y == cb_back(grad_buff')
             IN  alpha' = IF check_curve(y, s)
                          THEN form_diag(alpha, y, s)
                          ELSE alpha]_vars

\* The last n pairs handed to push_back, oldest first
LastPushed(n) == SubSeq(pushed, Len(pushed) - n + 1, Len(pushed))

\* C4: the sequential history is a FIFO of capacity history_size: the
\* buffers hold the most recent min(k, history_size) pairs, a push into a
\* full buffer evicts the oldest, column i of Ykt_mat and Skt_mat is the
\* i-th oldest retained pair, and the columns of the two are aligned.
C4_SeqHistoryFifo ==
    driver = "seq" =>
       LET n == Min(Len(pushed), history_size)
           kept == LastPushed(n)
       IN  /\ cb_capacity(param_buff) = history_size
           /\ cb_capacity(grad_buff) = history_size
           /\ param_buff.size = n /\ grad_buff.size = n
           /\ current_history_size = n
           /\ SeqHistory = [i \in 1..n |-> [s |-> kept[i].s, y |-> kept[i].y]]
           /\ Skt_mat = [i \in 1..n |-> kept[i].s]
           /\ Ykt_mat = [i \in 1..n |-> kept[i].y]

\* C4 happens: a buffer of more than one slot has evicted its oldest pair,
\* and the two newest pairs differ.
C4_Evicted ==
    /\ driver = "seq"
    /\ history_size > 1
    /\ Len(pushed) > history_size
    /\ pushed[Len(pushed)].s # pushed[Len(pushed) - 1].s

\* C5: in the parallel driver the columns a task selects into ys_cols are in
\* chronological order, oldest first.
C5_ParColsOldestFirst ==
    driver = "par" =>
       \A iter \in ParBuilt :
          \A k \in 1..Len(task[iter].ys_cols) - 1 :
             task[iter].ys_cols[k] < task[iter].ys_cols[k + 1]

ArgMax == {r \in scored : \A q \in scored : r.elbo >= q.elbo}

\* The smallest iteration number in ArgMax
MinArgMax == CHOOSE i \in {r.iter : r \in ArgMax} :
                 \A r \in ArgMax : i <= r.iter

\* C7: the recorded best ELBO is greater than or equal to the ELBO of every
\* iterate scored so far: after every iteration of the sequential driver,
\* and in the parallel driver once the parallel_for has completed, whatever
\* the interleaving of the tasks.
C7_BestIsMax ==
    /\ driver = "seq" => \A r \in scored : elbo_best.elbo >= r.elbo
    /\ (driver = "par" /\ ParJoined) =>
          \A r \in scored : elbo_fit_best.elbo >= r.elbo

\* C7 happens: the parallel_for has completed, the record holds iterate 0
\* and a later iterate scored lower.
C7_ParBestKept ==
    /\ driver = "par" /\ pc = "done"
    /\ elbo_fit_best.tag = 0 /\ best_E = 0
    /\ \E r \in scored : r.iter > 0 /\ r.elbo < elbo_fit_best.elbo

\* C8: in the sequential driver the best record is replaced only by an
\* iterate whose ELBO is strictly greater than the recorded one, and is
\* replaced by every such iterate; so among the iterates of equal maximal
\* ELBO the record holds the one with the smallest iteration number.
C8_SeqStrictReplace ==
    /\ [](driver = "seq" /\ best_E # -1 =>
             /\ best_E = MinArgMax
             /\ elbo_best.tag = best_E
             /\ taylor_approx_best.tag = best_E)
    /\ [][driver = "seq" =>
             LET old == <<elbo_best, taylor_approx_best, best_E>>
                 new == <<elbo_best', taylor_approx_best', best_E'>>
             IN  /\ new # old =>
                       \E r \in scored' \ scored :
                          /\ r.elbo > elbo_best.elbo
                          /\ elbo_best'.elbo = r.elbo
                          /\ elbo_best'.tag = r.iter
                          /\ best_E' = r.iter
                 /\ \A r \in scored' \ scored :
                       r.elbo > elbo_best.elbo => best_E' = r.iter]_vars

\* C8 happens: a later iterate has scored the recorded maximal ELBO again
C8_SeqTie ==
    /\ driver = "seq" /\ best_E # -1
    /\ \E r \in scored : r.elbo = elbo_best.elbo /\ r.iter > best_E

\* C9: in the parallel driver, once the parallel_for has completed, best_E
\* is the smallest iteration index among the iterates of maximal ELBO,
\* whatever the interleaving of the tasks.
C9_ParTieSmallestIndex ==
    (driver = "par" /\ ParJoined /\ elbo_fit_best.tag # -1) =>
       best_E = MinArgMax

\* The task is between taking update_best_mutex and releasing it
InCritical(iter) ==
    task[iter].pc \in {"compare", "write_elbo", "write_taylor",
                       "write_best_E", "unlock"}

\* C10: in the parallel driver a task reads, compares and writes the best
\* record only while it holds update_best_mutex: no two tasks are between
\* the comparison and the write at once, and whenever the mutex is free the
\* three fields of a written record come from one iterate.
C10_ParMutualExclusion ==
    driver = "par" =>
       /\ \A i, j \in DOMAIN task :
             (InCritical(i) /\ InCritical(j)) => i = j
       /\ \A i \in DOMAIN task :
             InCritical(i) => update_best_mutex = i + 1
       /\ (update_best_mutex = 0 /\ elbo_fit_best.tag # -1) =>
             /\ taylor_approx_best.tag = elbo_fit_best.tag
             /\ best_E = elbo_fit_best.tag

\* C10 happens: one task is in the middle of writing the record while
\* another, with a higher ELBO, waits for the mutex.
C10_WriterAndWaiter ==
    /\ driver = "par"
    /\ \E i, j \in DOMAIN task :
          /\ task[i].pc = "write_taylor"
          /\ task[j].pc = "wait"
          /\ task[j].elbo_est.elbo > task[i].elbo_est.elbo

--------------------------------------------------------------------------
\* C11: when lp_fun throws std::exception on draw i of an ELBO estimate,
\* lp_mat[i, 1] is -infinity, every other draw is still evaluated and holds
\* the value lp_fun returned, est_approx_draws returns its record, and the
\* pass of the loop ends as any other: no exception leaves the driver, and
\* the loop goes on when the optimizer returned 0.
C11_ThrowingLpFunContinues ==
    /\ [](driver = "seq" =>
             LET est == pathfinder_res.first
             IN  /\ est.fn_calls = Len(pathfinder_res.lp_fun_out)
                 /\ \A i \in DOMAIN pathfinder_res.lp_fun_out :
                       est.lp_mat[i][2] =
                          IF i \in Threw(pathfinder_res)
                          THEN NegInf
                          ELSE pathfinder_res.lp_fun_out[i].value)
    /\ [][(driver = "seq" /\ scored' # scored
                /\ Threw(pathfinder_res') # {}) =>
             /\ exception' = "none"
             /\ pathfinder_res'.first.tag = lbfgs'.iter_num
             /\ pc' = IF ret' = 0 THEN "loop" ELSE "after"]_vars

\* C11 happens: lp_fun threw on the first draw of iterate 1, the other draw
\* was evaluated, and the driver has taken the step to iterate 2.
C11_SteppedAfterThrow ==
    /\ driver = "seq" /\ pc = "loop"
    /\ [iter |-> 1, elbo |-> NegInf, threw |-> {1}] \in scored
    /\ lbfgs.iter_num = 2
    /\ pathfinder_res.first.tag = 2
    /\ Threw(pathfinder_res) = {1}
    /\ pathfinder_res.first.lp_mat[2][2] = 0

\* C12: if at every iterate lp_fun throws on some but not all of the ELBO
\* draws, the sequential driver returns OK with a draw matrix of the expected
\* number of columns; and it returns SOFTWARE only when no iterate has a
\* draw on which lp_fun returned.
C12_PartialThrowsStillOk ==
    (driver = "seq" /\ pc = "done") =>
       LET all == 1..num_elbo_draws
       IN  /\ (scored # {} /\ \A r \in scored : r.threw \notin {{}, all}) =>
                 /\ return_code = "OK"
                 /\ Len(out_draws.cols) \in {num_draws, num_elbo_draws}
           /\ return_code = "SOFTWARE" => \A r \in scored : r.threw = all

\* The record est_approx_draws returned has lp_ratio = lp_mat.col(1) -
\* lp_mat.col(0), a row of -infinity giving -infinity
EstRatioIsDifference ==
    /\ Len(est_result.lp_ratio) = num_elbo_draws
    /\ \A i \in 1..num_elbo_draws :
          /\ est_result.lp_mat[i][1] = est_args.lp_approx[i]
          /\ est_result.lp_ratio[i] =
                IF est_result.lp_mat[i][2] = NegInf
                THEN NegInf
                ELSE est_result.lp_mat[i][2] - est_result.lp_mat[i][1]

\* Its elbo field is the mean of lp_ratio when that is finite, and
\* -infinity otherwise
EstElboIsMean ==
    IF \A i \in 1..num_elbo_draws : est_result.lp_ratio[i] # NegInf
    THEN est_result.elbo * num_elbo_draws =
            SumTo(est_result.lp_ratio, num_elbo_draws)
    ELSE est_result.elbo = NegInf

\* C13 as stated: every record returned by est_approx_draws has lp_ratio[i]
\* = lp_mat[i, 1] - lp_mat[i, 0] for all i and an elbo field equal to
\* mean(lp_ratio) when that mean is finite and -infinity otherwise.
C13_ElboIsMeanOfRatios ==
    (driver = "est" /\ pc = "done") =>
       EstRatioIsDifference /\ EstElboIsMean

\* C13 amended: lp_ratio[i] = lp_mat[i, 1] - lp_mat[i, 0] for all i in every
\* record; the elbo field is mean(lp_ratio) when that is finite and
\* -infinity otherwise in a record of est_approx_draws<true>, and it is
\* -infinity whatever the mean in a record of est_approx_draws<false>.
C13_ElboIsMeanWhenAsked ==
    (driver = "est" /\ pc = "done") =>
       /\ EstRatioIsDifference
       /\ est_args.ReturnElbo => EstElboIsMean
       /\ ~est_args.ReturnElbo => est_result.elbo = NegInf

\* C13 happens: est_approx_draws<false> has returned a record whose
\* lp_ratio is finite with a non-zero mean, and whose elbo is -infinity.
C13_FiniteMeanNotReturned ==
    /\ driver = "est" /\ pc = "done"
    /\ ~est_args.ReturnElbo
    /\ \A i \in 1..num_elbo_draws : est_result.lp_ratio[i] = num_elbo_draws
    /\ est_result.elbo = NegInf

\* The sequential driver has returned
SeqReturned == driver = "seq" /\ pc = "done"

\* C14: when the sequential driver returns OK with num_draws M >=
\* num_elbo_draws and final sampling did not throw, the matrix given to the
\* parameter writer is the returned one, it has (number of constrained names
\* + 2) rows and M columns, and the returned lp_ratio has length M.
C14_OutputShape ==
    (/\ SeqReturned /\ return_code = "OK"
     /\ num_draws >= num_elbo_draws
     /\ final_thrown = NotThrown) =>
       /\ written = <<out_draws>>
       /\ out_draws.rows = constrained_param_names + 2
       /\ Len(out_draws.cols) = num_draws
       /\ \A i \in 1..num_draws : Len(out_draws.cols[i].tail) = 2
       /\ Len(out_lp_ratio) = num_draws

\* C14 happens: OK was returned with one draw more than the ELBO draws
C14_MoreDrawsReturned ==
    /\ SeqReturned /\ return_code = "OK"
    /\ num_draws = num_elbo_draws + 1
    /\ final_thrown = NotThrown
    /\ out_draws.cols[num_draws].draw.kind = "final"

C16_NoBestIsSoftware ==
    /\ (SeqReturned /\ best_E = -1) =>
          /\ return_code = "SOFTWARE"
          /\ Len(out_lp_ratio) = 0
          /\ out_draws.rows = 0 /\ Len(out_draws.cols) = 0
          /\ written = <<>>
    /\ (driver = "seq" /\ pc = "final" /\ best_E = -1) => ENABLED SeqReturn

\* C16 happens: iterates were scored, none became the best one, and the
\* driver returned
C16_ScoredButNoBest ==
    /\ SeqReturned /\ best_E = -1
    /\ scored # {}
    /\ return_code = "SOFTWARE"

\* C17: a pass of the loop in which interrupt() throws ends, in either
\* driver, with the SOFTWARE code returned, empty outputs, no draw matrix
\* written and no exception leaving pathfinder_lbfgs_single.
C17_InterruptIsSoftware ==
    [][(SeqInterrupted \/ ParInterrupted) =>
          /\ exception' = "none"
          /\ return_code' = "SOFTWARE"
          /\ out_lp_ratio' = <<>> /\ out_draws' = Matrix(0, <<>>)
          /\ written' = <<>>]_vars

\* C18: a pass of the sequential loop in which taylor_approximation throws
\* ends with no exception leaving the driver, with the best record
\* (elbo_best, taylor_approx_best, best_E) as it was, and with the driver in
\* its loop or past it.
C18_TaylorFailureSkipsIterate ==
    [][SeqTaylorThrows =>
          /\ exception' = "none"
          /\ UNCHANGED <<elbo_best, taylor_approx_best, best_E>>
          /\ pc' \in {"loop", "after"}]_vars


\* ------------------------------------------------------------------------
\* C19: no random number generator is used by two concurrently running
\* tasks of the parallel driver: while ELBO scoring draws from a generator,
\* while the ELBO draws are constrained and while the other draws are
\* generated, the generators of any two running tasks are disjoint.
\* ------------------------------------------------------------------------
RunningRngs ==
    [t \in {<<"elbo", i>> : i \in {j \in DOMAIN task : task[j].pc = "own"}}
        \cup {<<"draws", i>> : i \in {j \in DOMAIN ftask :
                                         ftask[j].pc = "busy"}} |->
        IF t[1] = "elbo" THEN task[t[2]].rngs ELSE ftask[t[2]].rngs]

C19_NoRngSharedByTasks ==
    driver = "par" =>
        \A s, t \in DOMAIN RunningRngs :
            s # t => RunningRngs[s] \cap RunningRngs[t] = {}


\* ------------------------------------------------------------------------
\* C20: determinism.  With the model, the inits, the options and
\* (random_seed, path) fixed, the ELBO of every iterate and the streams of
\* the generators are fixed, so two runs can differ only in the order in
\* which tbb runs the tasks and in how it splits the ranges.  What a run
\* returns is then what the run that takes the tasks one at a time in index
\* order returns: the draws come from the iterate of maximal ELBO with the
\* smallest index, and every column is filled from the place of the
\* generators' streams that its index gives it.
\* ------------------------------------------------------------------------
InOrderBlock(blk) ==
    /\ blk.tag = MinArgMax
    /\ ~blk.raced
    /\ blk.rng_from = blk.begin
    /\ blk.kind = "final" => blk.gaus_from = blk.begin - num_elbo_draws

C20_Determinism ==
    /\ (driver = "seq" /\ pc = "done") =>
          /\ return_code = IF best_E = -1 THEN "SOFTWARE" ELSE "OK"
          /\ \A i \in DOMAIN out_draws.cols :
                out_draws.cols[i].draw.tag = MinArgMax
    /\ (driver = "par" /\ pc = "done") =>
          /\ return_code = "OK"
          /\ \A i \in DOMAIN out_draws.cols : InOrderBlock(out_draws.cols[i])
          /\ \A i \in DOMAIN out_lp_ratio : out_lp_ratio[i].tag = MinArgMax

\* ------------------------------------------------------------------------
\* C21: max_n_elements(lw, n), n = tail_len + 1, called on an lw of at least
\* n entries, returns the n largest values of lw in ascending order with
\* the indices they have in lw; so in psis_weights the cutoff is the n-th
\* largest value of lw and lw_tail holds the tail_len largest.
\* ------------------------------------------------------------------------
C21_MaxNElementsLargest ==
    (driver = "psis" /\ psis.max_n.top_n # <<>>) =>
       LET lw == [k \in DOMAIN psis.log_ratios_i |->
                     psis.log_ratios_i[k] - maxCoeff(psis.log_ratios_i)]
           top_n == psis.max_n.top_n
           top_n_idx == psis.max_n.top_n_idx
           taken == {top_n_idx[k] : k \in DOMAIN top_n_idx}
       IN  /\ Len(top_n) = psis.tail_len_i + 1
           /\ \A k \in 1..Len(top_n) - 1 : top_n[k] <= top_n[k + 1]
           /\ \A k \in DOMAIN top_n : at(lw, top_n_idx[k]) = top_n[k]
           /\ Cardinality(taken) = Len(top_n)
           /\ \A j \in 0..Len(lw) - 1 :
                 j \notin taken => at(lw, j) <= at(top_n, 0)

\* ------------------------------------------------------------------------
\* C22: when psis_weights puts the smoothed tail back, the index that the
\* i-th smallest tail element has in lw receives the i-th smoothed value,
\* exactly tail_len entries of lw are written, and every other entry, the
\* cutoff's among them, is as it was before.
\* ------------------------------------------------------------------------
C22_SmoothedAtTailIndices ==
    (driver = "psis" /\ pc = "truncate" /\ psis.smoothed # <<>>) =>
       LET lw == [k \in DOMAIN psis.log_ratios_i |->
                     psis.log_ratios_i[k] - maxCoeff(psis.log_ratios_i)]
           tail_idx == tail(psis.max_n.top_n_idx, psis.tail_len_i)
           written_to == {tail_idx[i] : i \in DOMAIN tail_idx}
       IN  /\ Len(psis.smoothed) = psis.tail_len_i
           /\ \A i \in DOMAIN tail_idx :
                 at(lw_i, tail_idx[i]) = psis.smoothed[i]
           /\ Cardinality(written_to) = psis.tail_len_i
           /\ at(psis.max_n.top_n_idx, 0) \notin written_to
           /\ \A j \in 0..Len(lw) - 1 :
                 j \notin written_to => at(lw_i, j) = at(lw, j)

\* C22 happens: the tail was not flat, the fitted quantiles were put into
\* lw_i, and an entry outside the sorted head is still what it was.
C22_TailSmoothed ==
    /\ driver = "psis" /\ pc = "truncate"
    /\ psis.smoothed # <<>>
    /\ psis.smoothed # tail(psis.max_n.top_n, psis.tail_len_i)
    /\ Len(lw_i) > psis.tail_len_i + 1
    /\ \E i \in DOMAIN psis.smoothed :
          at(lw_i, at(psis.max_n.top_n_idx, i)) = psis.smoothed[i]
             /\ at(psis.max_n.top_n_idx, i) # i

\* The places a pending call quick_sort(arr, idx, low, high) reads or writes
\* (lines 152-165 touch arr and idx between low and high only; with
\* low >= high the call touches nothing)
FrameRange(f) == IF f[1] < f[2] THEN f[1]..f[2] ELSE {}

\* Every place the thread may still touch
TaskRange(t) == UNION {FrameRange(qs[t].stack[k]) : k \in DOMAIN qs[t].stack}

\* The two threads one parallel_invoke has forked
Forked(t, u) == t < u /\ qs[t].parent = qs[u].parent /\ qs[t].parent # 0

\* ------------------------------------------------------------------------
\* C28: the two sub-sorts quick_sort gives to tbb::parallel_invoke work on
\* [low, partition_index - 1] and [partition_index + 1, high]: all a thread
\* touches lies in its range, the ranges of the two threads have no place in
\* common, every change of arr and idx is within the range of the call that
\* made it, and what quick_sort leaves is what the recursion on one thread
\* leaves.
\* ------------------------------------------------------------------------
C28_ForkedSortsDisjoint ==
    /\ [](driver = "sort" =>
            /\ \A t \in DOMAIN qs : TaskRange(t) \subseteq qs[t].low..qs[t].high
            /\ \A t, u \in DOMAIN qs :
                  Forked(t, u) =>
                     /\ qs[t].low..qs[t].high \cap qs[u].low..qs[u].high = {}
                     /\ TaskRange(t) \cap TaskRange(u) = {}
            /\ SortDone =>
                  \E s \in {quick_sort(sort_args.arr, sort_args.idx)} :
                     arr = s.arr /\ idx = s.idx)
    /\ [][driver = "sort" =>
            \A k \in DOMAIN arr :
               (arr'[k] # arr[k] \/ idx'[k] # idx[k]) =>
                  \E t \in DOMAIN qs :
                     /\ qs[t].stack # <<>> /\ qs'[t] # qs[t]
                     /\ k - 1 \in FrameRange(qs[t].stack[1])]_vars

\* C28 happens: two forked threads are both in the middle of their sub-sorts,
\* each having made calls and having calls to make, and arr has changed.
C28_BothSubSortsRunning ==
    /\ driver = "sort"
    /\ \E t, u \in DOMAIN qs :
          /\ Forked(t, u)
          /\ TaskRange(t) # {} /\ TaskRange(u) # {}
          /\ qs[t].stack # <<<<qs[t].low, qs[t].high>>>>
          /\ qs[u].stack # <<<<qs[u].low, qs[u].high>>>>
    /\ arr # sort_args.arr

\* ------------------------------------------------------------------------
\* C29: quick_sort returns; arr is then in ascending order, equal values
\* included, and holds the values it was given; idx has gone through the
\* same exchanges, so idx[k] is the place arr[k] was given at.
\* ------------------------------------------------------------------------
C29_QuickSortSortsInLockstep ==
    /\ <>SortDone
    /\ [](SortDone =>
            /\ \A k \in 1..Len(arr) - 1 : arr[k] <= arr[k + 1]
            /\ Len(arr) = Len(sort_args.arr) /\ Len(idx) = Len(arr)
            /\ \A j \in DOMAIN sort_args.idx :
                  \E k \in DOMAIN idx :
                     /\ idx[k] = sort_args.idx[j]
                     /\ arr[k] = sort_args.arr[j]
                     /\ \A m \in DOMAIN idx : idx[m] = idx[k] => m = k)

\* C29 happens: quick_sort has returned from an array with equal values in
\* it that was not in order.
C29_SortedWithDuplicates ==
    /\ driver = "sort" /\ SortDone
    /\ arr # sort_args.arr
    /\ \E j, k \in DOMAIN arr : j < k /\ arr[j] = arr[k]
    /\ \E j, k \in DOMAIN arr : j < k /\ arr[j] < arr[k]

\* calls is interrupt(), step(), interrupt(), step(), ... and no call follows
\* a step that returned a non-zero code
CallsAlternate ==
    /\ \A k \in DOMAIN calls :
          calls[k][1] = IF k % 2 = 1 THEN "interrupt" ELSE "step"
    /\ \A k \in DOMAIN calls :
          (calls[k][1] = "step" /\ calls[k][2] # 0) => k = Len(calls)

\* calls is (interrupt, step)^n with n >= 1 and the last step returned a
\* non-zero code
CallsEndedByStep ==
    /\ Len(calls) >= 2 /\ Len(calls) % 2 = 0
    /\ calls[Len(calls)][2] # 0

\* The final-draw stage (lines 992-1095) is running or has run
SeqFinalStage ==
    \/ pc \in {"final", "done"}
    \/ pc = "thrown" /\ exception = "constrain_fun"

C26_LineSearchFailureSkipsPass ==
    [][(driver = "seq" /\ pc = "loop" /\ pc' # "thrown") =>
          IF ret' = TERM_LSFAIL
          THEN /\ UNCHANGED <<param_buff, grad_buff, current_history_size,
                              prev_params, prev_grads, alpha, Ykt_mat,
                              Skt_mat>>
               /\ UNCHANGED <<elbo_best, taylor_approx_best, best_E>>
               /\ UNCHANGED <<pushed, scored, pathfinder_res>>
          ELSE /\ cb_back(param_buff') = VSub(lbfgs'.curr_x, prev_params)
               /\ cb_back(grad_buff') = VSub(lbfgs'.curr_g, prev_grads)
               /\ prev_params' = lbfgs'.curr_x
               /\ prev_grads' = lbfgs'.curr_g
               /\ current_history_size' =
                     Min(current_history_size + 1, history_size)
               /\ Len(pushed') = Len(pushed) + 1
               /\ pushed'[Len(pushed')].iter = lbfgs'.iter_num
               /\ \E rec \in scored' \ scored :
                     /\ rec.iter = lbfgs'.iter_num
                     /\ rec.elbo = pathfinder_res'.first.elbo
                     /\ scored' = scored \cup {rec}]_vars

\* C26 happens: a pass was pushed and scored, and the step of the next pass
\* returned -1, which ended the loop with the history as the first pass
\* left it.
C26_FailedStepAfterScoredPass ==
    /\ driver = "seq" /\ pc = "after"
    /\ ret = TERM_LSFAIL
    /\ Len(calls) = 4
    /\ Len(pushed) = 1 /\ Cardinality(scored) = 1
    /\ current_history_size = 1

\* The row of a column's tail(2) that the header names nm
TailRow(col, nm) ==
    col.tail[CHOOSE k \in DOMAIN lp_names : lp_names[k] = nm]

\* ------------------------------------------------------------------------
\* C27: in the matrix the sequential driver returns, the first K columns are
\* the K ELBO draws of the best iterate in their order and the columns after
\* them are the additional draws in the order they were generated; in every
\* column the row named lp_approx__ (the second-to-last) holds the draw's
\* approximate log density and the row named lp__ (the last) its target log
\* density; and lp_ratio[j] is the last row minus the second-to-last row of
\* column j.
\* ------------------------------------------------------------------------
C27_ColumnOrderAndLpRows ==
    (driver = "seq" /\ pc = "done" /\ return_code = "OK") =>
       LET K == Len(elbo_best.repeat_draws)
           M == Len(out_draws.cols)
       IN  /\ K = num_elbo_draws /\ M >= K
           /\ out_draws.rows = names_size
           /\ lp_names = <<"lp_approx__", "lp__">>
           /\ \A i \in 1..K :
                 out_draws.cols[i].draw =
                    [kind |-> "elbo", tag |-> best_E, idx |-> i]
           /\ \A i \in K + 1..M :
                 out_draws.cols[i].draw =
                    [kind |-> "final", tag |-> best_E, idx |-> i - K]
           /\ \A i \in 1..M : Len(out_draws.cols[i].tail) = 2
           /\ \A i \in 1..K :
                 /\ TailRow(out_draws.cols[i], "lp_approx__") =
                       elbo_best.lp_mat[i][1]
                 /\ TailRow(out_draws.cols[i], "lp__") =
                       elbo_best.lp_mat[i][2]
                 /\ out_draws.cols[i].tail[1] = LpApprox(K)[i]
           /\ \A i \in K + 1..M :
                 /\ TailRow(out_draws.cols[i], "lp_approx__") =
                       LpApprox(M - K)[i - K]
                 /\ \E o \in FinalLpOutcomes(M - K) :
                       TailRow(out_draws.cols[i], "lp__") =
                          est_lp_mat(LpApprox(M - K), o)[i - K][2]
           /\ Len(out_lp_ratio) = M
           /\ \A j \in 1..M :
                 out_lp_ratio[j] = InfSub(out_draws.cols[j].tail[2],
                                          out_draws.cols[j].tail[1])

\* C27 happens: the driver returned more draws than the best iterate's ELBO
\* estimate held, and a column has a target log density that differs from
\* its approximate one.
C27_AdditionalDrawsAppended ==
    /\ driver = "seq" /\ pc = "done" /\ return_code = "OK"
    /\ Len(out_draws.cols) = num_elbo_draws + 1
    /\ out_draws.cols[1].tail[2] \notin {NegInf, out_draws.cols[1].tail[1]}
    /\ out_draws.cols[num_elbo_draws + 1].tail[2] = NegInf

\* The code of the step that ended the loop
LastStepCode == calls[Len(calls)][2]

\* ------------------------------------------------------------------------
\* C30: the sequential driver returns SOFTWARE exactly when no iterate was
\* scored with an ELBO above -infinity, which is when best_E is still -1
\* after the loop, and OK otherwise, with the draws of the best iterate; the
\* code of the step that ended the loop has no part in it.
\* ------------------------------------------------------------------------
C30_StatusFromBestOnly ==
    (driver = "seq" /\ pc = "done") =>
       /\ return_code \in {"OK", "SOFTWARE"}
       /\ return_code = "SOFTWARE" <=> ~\E rec \in scored : rec.elbo > NegInf
       /\ return_code = "SOFTWARE" <=> best_E = -1
       /\ return_code = "OK" =>
             /\ \E rec \in scored : rec.iter = best_E /\ rec.elbo > NegInf
             /\ out_draws.cols # <<>>
             /\ \A i \in DOMAIN out_draws.cols :
                   out_draws.cols[i].draw.tag = best_E
       /\ (LastStepCode < 0 /\ \E rec \in scored : rec.elbo > NegInf) =>
             return_code = "OK"

\* C30 happens: the first iterate became the best one, the step of the
\* second pass returned the error code -1, and the driver returned OK with
\* the draws of the first iterate.
C30_OkAfterErrorCode ==
    /\ driver = "seq" /\ pc = "done"
    /\ Len(calls) = 4 /\ LastStepCode = TERM_LSFAIL
    /\ best_E = 1
    /\ return_code = "OK"
    /\ out_draws.cols[1].draw.tag = 1

\* ------------------------------------------------------------------------
\* C24: the matrix the Taylor approximation gives to the Cholesky
\* factorisation is positive-definite for every history the driver holds.
\* Both forms build it from alpha and from ninvRST, the solution of
\* Rk * X = Skt_mat' (line 724), so alpha is positive and no diagonal entry
\* of Rk is 0; and with one pair (s, y) in the history the matrix is
\* (I - s y'/Dk) diag(alpha) (I - y s'/Dk) + s s'/Dk, whose quadratic form
\* at y is Dk, so Dk is positive.
\* ------------------------------------------------------------------------
C24_CholeskyOfPositiveDefinite ==
    (driver = "seq" /\ pc \in {"loop", "after"} /\ Ykt_mat # <<>>) =>
       LET Dk == pathfinder_Dk(Ykt_mat, Skt_mat)
       IN  /\ \A i \in DOMAIN alpha.m : RPos(alpha.m[i])
           /\ \A k \in DOMAIN Dk : Dk[k] # 0
           /\ Len(Dk) = 1 => Dk[1] > 0

\* ------------------------------------------------------------------------
\* C23: form_diag, given an alpha_init with positive components and a pair
\* that passes the curvature check (y's > 0), returns a vector whose every
\* component is above 0, in every dimension.  A component that is +infinity,
\* which is what y_s / 0 gives, is counted as being above 0.
\* ------------------------------------------------------------------------
C23_FormDiagPositive ==
    (driver = "diag" /\ pc = "done") =>
       /\ \A i \in DOMAIN diag_args.alpha_init : diag_args.alpha_init[i].m > 0
       /\ Len(diag_result) = Len(diag_args.Yk)
       /\ \A i \in DOMAIN diag_result :
             diag_result[i] = NotFinite \/ diag_result[i].m > 0

==========================================================================
